---------------------------- MODULE Spec2Model ----------------------------
(***************************************************************************)
(* A model of mpr-thing: the raw-REPL scopes (catcher.py), Board.exec_,   *)
(* the interactive multiplexing loop (mpr_thing.py), the command shell's  *)
(* exception handling and the prompt detector.                            *)
(*                                                                         *)
(* The repository holds two generations of the code:                      *)
(*   src/mpr_thing/...      the class-based raw_repl, the byte-at-a-time  *)
(*                          loop (called "class" / "old" below)           *)
(*   src/src/mpr_thing/...  the generator-based raw_repl, the chunked     *)
(*                          loop (called "gen" / "new" below)             *)
(* The variable impl selects the generation a behaviour runs.             *)
(***************************************************************************)
EXTENDS Integers, Sequences, FiniteSets, TLC

VARIABLES
    impl,      \* "class" | "gen": which generation of the code runs
    pyb,       \* the Pyboard/transport object and the I/O it has performed
    scopes,    \* stack of the raw_repl scopes that are open (innermost last)
    exc,       \* the exception that is propagating ("none": normal control flow)
    ep,        \* bookkeeping of the current outermost scope ("episode")
    lp,        \* the loop's local variables, its state and its console
    conin,     \* bytes waiting on the console input (typed, or the terminal's answers)
    devq,      \* bytes the device has sent and the host has not read yet
    fwd,       \* the bytes the loop has forwarded to the device, in order
    owed,      \* history: the typed bytes that the loop neither intercepted nor
               \* accepted as an escape trigger (nor handed to the shell)
    shell,     \* the command shell object (RemoteCmd / LocalCmd)
    last,      \* history: what the last step of the loop did
    env,       \* history: how much the environment has typed and sent, and the
               \* turns the loop has given to the console and to the device
    det,       \* the prompt detector on its own, and the bytes fed to it
    fsys,      \* the files on the board and the outcome of the last file command
    tree,      \* a directory tree to transfer or remove, the place it goes to,
               \* and the outcome of the last transfer or removal
    meta,      \* the helper's load state, the epoch offset, a RemotePath and the
               \* outcome of the last operation on file times
    cmdq,      \* the command shell's queue of commands (BaseCommands.cmdqueue),
               \* its mode, and the commands it has run
    rcache,    \* the board's files as RemotePath sees them, its stat cache and
               \* its directory cache, and where the last answer came from
    cur        \* one call of cursor_column: the bytes to come, the bytes read,
               \* the polls made and the result

rawVars == <<impl, pyb, scopes, exc, ep>>
scopeVars == <<scopes, exc, ep>>
loopVars == <<lp, conin, devq, fwd, owed, shell, last, env>>
moreVars == <<cmdq, rcache, cur>>

(***************************************************************************)
(* Bounds                                                                  *)
(***************************************************************************)
MaxDepth == 3      \* raw_repl scopes nested at most this deep
MaxExec  == 2      \* successful exec_ calls per outermost scope
MaxRaise == 2      \* exceptions raised per outermost scope

Impls    == {"class", "gen"}
ExcTypes == {"PyboardError", "KeyboardInterrupt", "Exception"}
EnterOutcomes == {"ok", "PyboardError", "Exception"}

(***************************************************************************)
(* The Pyboard object (mpremote, an external library) as the wire framing *)
(* describes it.  io is the list of bytes written to the serial port and  *)
(* of blocking reads, since the outermost scope was opened.               *)
(***************************************************************************)
CR     == "\\r"
CtrlA  == "^A"
CtrlB  == "^B"
CtrlC  == "^C"
CtrlD  == "^D"
Code   == "code"
ReadPrompt == "read_until(>>> )"

Pyb0 == [in_raw_repl |-> FALSE, mode |-> "friendly", io |-> <<>>,
         nEnter |-> 0, nExit |-> 0, nExecOk |-> 0]

serial_write(p, bytes) == [p EXCEPT !.io = @ \o bytes]

\* Pyboard.enter_raw_repl(soft_reset): ctrl-A (and ctrl-D for a soft reset); it
\* raises when the banner is not seen, leaving in_raw_repl unset.
enter_raw_repl(p, soft_reset, how) ==
    LET w == serial_write(p, IF soft_reset THEN <<CR, CtrlA, CtrlD>> ELSE <<CR, CtrlA>>)
    IN  IF how = "ok"
        THEN [w EXCEPT !.in_raw_repl = TRUE, !.mode = "raw", !.nEnter = @ + 1]
        ELSE [w EXCEPT !.nEnter = @ + 1]

\* Pyboard.exit_raw_repl(): ctrl-B, the device prints its friendly prompt.
exit_raw_repl(p) ==
    [serial_write(p, <<CR, CtrlB>>) EXCEPT
        !.in_raw_repl = FALSE, !.mode = "friendly", !.nExit = @ + 1]

\* Pyboard.read_until(4, b">>> ")
read_until(p) == serial_write(p, <<ReadPrompt>>)

\* Pyboard.exec_(code): the code, ctrl-D, and the framed answer.
pyb_exec(p) == [serial_write(p, <<Code, CtrlD>>) EXCEPT !.nExecOk = @ + 1]

(***************************************************************************)
(* raw_repl, class-based: src/mpr_thing/catcher.py                        *)
(***************************************************************************)
\* line 93: only enter the raw repl if necessary
NeedEnterAlways(p) == TRUE
NeedEnter(p) == ~p.in_raw_repl

\* __enter__ (lines 91-103).  Returns the new pyb, the instance's restore_repl,
\* and the exception __enter__ raises ("none": the scope is open).
ClassEnterOp(p, soft_reset, how) ==
    IF NeedEnter(p)
    THEN IF how = "ok"
         THEN [pyb |-> enter_raw_repl(p, soft_reset, how),
               restore_repl |-> TRUE, exc |-> "none"]
         ELSE [pyb |-> read_until(exit_raw_repl(enter_raw_repl(p, soft_reset, how))),
               restore_repl |-> FALSE, exc |-> how]
    ELSE [pyb |-> p, restore_repl |-> FALSE, exc |-> "none"]

\* line 108: only exit the raw_repl if we entered it with this instance
ClassMustExitNormalOnly(s, p, e) == s.restore_repl /\ p.in_raw_repl /\ e = "none"
ClassMustExitAny(s, p, e) == p.in_raw_repl
ClassMustExit(s, p, e) == s.restore_repl /\ p.in_raw_repl

\* lines 109-111: ctrl-C twice on a KeyboardInterrupt
ClassInterruptNever(e) == <<>>
ClassInterrupt(e) == IF e = "KeyboardInterrupt" THEN <<CR, CtrlC, CtrlC>> ELSE <<>>

\* lines 114-124: the value __exit__ returns; a true value suppresses the exception
ClassExitReturns(s, e) == IF e = "PyboardError" THEN s.reraise ELSE FALSE

\* __exit__ (lines 105-124) of instance s, the body having ended with e.
ClassExitOp(p, s, e) ==
    LET p1 == IF ClassMustExit(s, p, e)
              THEN read_until(exit_raw_repl(serial_write(p, ClassInterrupt(e))))
              ELSE p
    IN  [pyb |-> p1,
         exc |-> IF e # "none" /\ ClassExitReturns(s, e) THEN "none" ELSE e]

(***************************************************************************)
(* raw_repl, generator-based: src/src/mpr_thing/catcher.py                *)
(***************************************************************************)
\* lines 95-99, the finally clause
GenFinally(p, restore_repl) ==
    IF restore_repl /\ p.in_raw_repl THEN read_until(exit_raw_repl(p)) ELSE p

\* lines 77-94, the except clauses (e # "none"): the new pyb, restore_repl and
\* the exception that leaves the generator.
GenExcept(p, restore_repl, e) ==
    CASE e = "KeyboardInterrupt" ->
            [pyb |-> serial_write(p, <<CR, CtrlC, CtrlC>>),
             restore_repl |-> restore_repl, exc |-> "none"]
      [] e = "PyboardError" ->
            [pyb |-> p, restore_repl |-> restore_repl, exc |-> "none"]
      [] OTHER ->
            [pyb |-> read_until(exit_raw_repl(p)),
             restore_repl |-> FALSE, exc |-> e]

\* The generator up to its yield (lines 68-75).  An exception of
\* enter_raw_repl is handled by the except clauses and the finally clause; the
\* generator then ends without a yield, which contextlib reports as a
\* RuntimeError ("generator didn't yield") unless the handler re-raised.
GenEnterOp(p, soft_reset, how) ==
    IF ~p.in_raw_repl
    THEN IF how = "ok"
         THEN [pyb |-> enter_raw_repl(p, soft_reset, how),
               restore_repl |-> TRUE, exc |-> "none"]
         ELSE LET h == GenExcept(enter_raw_repl(p, soft_reset, how), TRUE, how)
              IN  [pyb |-> GenFinally(h.pyb, h.restore_repl),
                   restore_repl |-> h.restore_repl, exc |-> "Exception"]
    ELSE [pyb |-> p, restore_repl |-> FALSE, exc |-> "none"]

\* The generator from its yield on (lines 75-99), the body having ended with e.
GenExitOp(p, s, e) ==
    IF e = "none"
    THEN [pyb |-> GenFinally(p, s.restore_repl), exc |-> "none"]
    ELSE LET h == GenExcept(p, s.restore_repl, e)
         IN  [pyb |-> GenFinally(h.pyb, h.restore_repl), exc |-> h.exc]

EnterOp(p, soft_reset, how) ==
    IF impl = "class" THEN ClassEnterOp(p, soft_reset, how)
                      ELSE GenEnterOp(p, soft_reset, how)

ExitOp(p, s, e) ==
    IF impl = "class" THEN ClassExitOp(p, s, e) ELSE GenExitOp(p, s, e)

(***************************************************************************)
(* Episodes: the bookkeeping of one outermost scope, from the moment it is *)
(* opened on an empty stack.                                               *)
(***************************************************************************)
Ep0 == [started |-> FALSE, clean |-> TRUE, depth |-> 0, nRaise |-> 0,
        lastExc |-> "none", prevExc |-> "none",
        nestedLeft |-> FALSE, intrLog |-> <<>>]

\* A fresh episode: the I/O log and the counters restart.
FreshPyb(p) == [p EXCEPT !.io = <<>>, !.nEnter = 0, !.nExit = 0, !.nExecOk = 0]
FreshEp(e)  == [Ep0 EXCEPT !.started = TRUE, !.prevExc = e.lastExc]

Top(st) == st[Len(st)]
Pop(st) == SubSeq(st, 1, Len(st) - 1)

RawInit ==
    /\ impl \in Impls
    /\ pyb = Pyb0
    /\ scopes = <<>>
    /\ exc = "none"
    /\ ep = Ep0

\* Bookkeeping of the three events of a scope.
EpEnter(e, r, depth) ==
    [e EXCEPT !.clean = @ /\ r.exc = "none",
              !.depth = IF r.exc = "none" /\ depth > @ THEN depth ELSE @,
              !.lastExc = IF depth = 1 /\ r.exc # "none" THEN r.exc ELSE @]

EpRaise(e) == [e EXCEPT !.clean = FALSE, !.nRaise = @ + 1]

EpExit(e, s, depth, before, after, x) ==
    [e EXCEPT
        !.lastExc = IF depth = 1 THEN x ELSE @,
        !.nestedLeft = @ \/ (~s.restore_repl /\ after.mode # before.mode),
        !.intrLog = IF x = "KeyboardInterrupt"
                    THEN Append(@, [restore_repl |-> s.restore_repl,
                                    wrote |-> SubSeq(after.io, Len(before.io) + 1,
                                                     Len(after.io))])
                    ELSE @]

\* What a body that ends with x has written: the code of the exec_ whose
\* execution raised on the device (PyboardError) or was interrupted.
BodyWrites(p, x) ==
    CASE x = "none" -> pyb_exec(p)
      [] x = "Exception" -> p
      [] OTHER -> serial_write(p, <<Code, CtrlD>>)

\* "with raw_repl(pyb, write_fn, soft_reset, reraise=...):" is reached
RawEnter(soft_reset, reraise, how) ==
    /\ exc = "none"
    /\ Len(scopes) < MaxDepth
    /\ (how # "ok" => ~pyb.in_raw_repl)
    /\ (soft_reset => ~pyb.in_raw_repl)
    /\ (reraise => impl = "class")
    /\ LET p0 == IF scopes = <<>> THEN FreshPyb(pyb) ELSE pyb
           e0 == IF scopes = <<>> THEN FreshEp(ep) ELSE ep
           r  == EnterOp(p0, soft_reset, how)
       IN  /\ pyb' = r.pyb
           /\ exc' = r.exc
           /\ scopes' = IF r.exc = "none"
                        THEN Append(scopes, [restore_repl |-> r.restore_repl,
                                             reraise |-> reraise])
                        ELSE scopes
           /\ ep' = EpEnter(e0, r, Len(scopes) + 1)
    /\ UNCHANGED <<impl, loopVars, det, fsys, tree, meta, moreVars>>

\* The body of the innermost scope calls pyb.exec_ and the code runs normally.
BodyExec ==
    /\ exc = "none"
    /\ scopes # <<>>
    /\ pyb.nExecOk < MaxExec
    /\ pyb.in_raw_repl
    /\ pyb' = BodyWrites(pyb, "none")
    /\ UNCHANGED <<impl, scopes, exc, ep, loopVars, det, fsys, tree, meta, moreVars>>

\* The body of the innermost scope raises: a PyboardError (the executed code
\* raised on the device) or a KeyboardInterrupt while an exec_ is outstanding,
\* or another exception of host-side code.
BodyRaise(e) ==
    /\ exc = "none"
    /\ scopes # <<>>
    /\ ep.nRaise < MaxRaise
    /\ pyb' = BodyWrites(pyb, e)
    /\ exc' = e
    /\ ep' = EpRaise(ep)
    /\ UNCHANGED <<impl, scopes, loopVars, det, fsys, tree, meta, moreVars>>

\* The innermost scope ends: normally (exc = "none") or by the exception exc.
RawExit ==
    /\ scopes # <<>>
    /\ LET s == Top(scopes)
           r == ExitOp(pyb, s, exc)
       IN  /\ pyb' = r.pyb
           /\ exc' = r.exc
           /\ scopes' = Pop(scopes)
           /\ ep' = EpExit(ep, s, Len(scopes), pyb, r.pyb, exc)
    /\ UNCHANGED <<impl, loopVars, det, fsys, tree, meta, moreVars>>

\* Board.exec_(code) (src/mpr_thing/board.py lines 106-122, and Board.exec of
\* src/src/mpr_thing/board.py lines 127-141): a raw_repl scope around one
\* pyb.exec_, called at top level or from the body of an open scope.  how is
\* the outcome of enter_raw_repl, x the way pyb.exec_ ends.
BoardExec(how, x) ==
    /\ exc = "none"
    /\ Len(scopes) < MaxDepth
    /\ (how # "ok" => ~pyb.in_raw_repl)
    /\ IF x = "none" THEN pyb.nExecOk < MaxExec ELSE ep.nRaise < MaxRaise
    /\ LET p0 == IF scopes = <<>> THEN FreshPyb(pyb) ELSE pyb
           e0 == IF scopes = <<>> THEN FreshEp(ep) ELSE ep
           d  == Len(scopes) + 1
           r  == EnterOp(p0, FALSE, how)
           s  == [restore_repl |-> r.restore_repl, reraise |-> FALSE]
           e1 == EpEnter(e0, r, d)
           pb == BodyWrites(r.pyb, x)
           q  == ExitOp(pb, s, x)
       IN  IF r.exc # "none"
           THEN /\ pyb' = r.pyb
                /\ exc' = r.exc
                /\ ep' = e1
           ELSE /\ pyb' = q.pyb
                /\ exc' = q.exc
                /\ ep' = EpExit(IF x = "none" THEN e1 ELSE EpRaise(e1),
                                s, d, pb, q.pyb, x)
    /\ UNCHANGED <<impl, scopes, loopVars, det, fsys, tree, meta, moreVars>>

\* An exception leaves the outermost scope: the caller (the command shell's
\* cmdloop, the catcher) handles it.
Caught ==
    /\ scopes = <<>>
    /\ exc # "none"
    /\ exc' = "none"
    /\ UNCHANGED <<impl, pyb, scopes, ep, loopVars, det, fsys, tree, meta, moreVars>>

RawNext ==
    \/ \E sr \in BOOLEAN, rr \in BOOLEAN, how \in EnterOutcomes : RawEnter(sr, rr, how)
    \/ BodyExec
    \/ \E e \in ExcTypes : BodyRaise(e)
    \/ RawExit
    \/ \E how \in EnterOutcomes, x \in ExcTypes \cup {"none"} : BoardExec(how, x)
    \/ Caught

(***************************************************************************)
(* The interactive multiplexing loop: my_do_repl_main_loop of mpr_thing.py *)
(* (impl = "class": src/mpr_thing/mpr_thing.py with the shells of          *)
(* src/mpr_thing/commands.py; impl = "gen": src/src/mpr_thing/mpr_thing.py *)
(* with BaseCommands.run of src/src/mpr_thing/base_commands.py).           *)
(***************************************************************************)
MaxTyped == 2      \* bytes typed on the console
MaxEmit  == 2      \* bursts of output of the device
MaxCmds  == 2      \* commands run in one activation of the shell

ESC == "ESC"
UserBytes == {"a", "%", "!", "\\r", "\\n", "^D", "^R", "^K", "^]", "^X"}
Prompt == <<"\\n", ">", ">", ">", " ">>
DevBursts == {<<"\\n">>, <<"x">>, Prompt}
\* What the terminal answers to ESC[6n: nothing, or ESC [ row ; col R
Responses == {<<>>, <<ESC, "[", "1", ";", "5", "R">>, <<ESC, "[", "2", ";", "1", "2", "R">>}
ShellExc == {"KeyboardInterrupt", "TransportError", "PyboardError", "Exception"}

PromptCol     == 5      \* the cursor column just after the idle prompt
QueryReadsOld == 10     \* for _ in range(10)
QueryReadsNew == 50     \* for _ in range(50)
NoMatch       == -1     \* cursor_column: no answer, or one that does not parse
NotQueried    == NoMatch - 1    \* history: cursor_column was not called

Min(S) == CHOOSE x \in S : \A y \in S : x <= y

IsDigit(b) == b \in {"0", "1", "2", "3", "4", "5", "6", "7", "8", "9"}
DigitVal(b) ==
    CASE b = "0" -> 0 [] b = "1" -> 1 [] b = "2" -> 2 [] b = "3" -> 3 [] b = "4" -> 4
      [] b = "5" -> 5 [] b = "6" -> 6 [] b = "7" -> 7 [] b = "8" -> 8 [] b = "9" -> 9
AllDigits(s) == \A i \in 1..Len(s) : IsDigit(s[i])

\* int(text) of a string of digits
RECURSIVE ToInt(_)
ToInt(ds) ==
    IF ds = <<>> THEN 0
    ELSE 10 * ToInt(SubSeq(ds, 1, Len(ds) - 1)) + DigitVal(ds[Len(ds)])

\* re.match(r'^\x1b\[(\d)*;(\d*)R', buf): the places <<i, j>> of ';' and 'R'
OldPattern(buf) ==
    {m \in (1..Len(buf)) \X (1..Len(buf)) :
        /\ m[1] >= 3 /\ m[2] > m[1]
        /\ buf[1] = ESC /\ buf[2] = "[" /\ buf[m[1]] = ";" /\ buf[m[2]] = "R"
        /\ AllDigits(SubSeq(buf, 3, m[1] - 1))
        /\ AllDigits(SubSeq(buf, m[1] + 1, m[2] - 1))}

\* re.match(r"^\x1b\[(\d+);(\d+)R", response)
NewPattern(buf) ==
    {m \in (1..Len(buf)) \X (1..Len(buf)) :
        /\ m[1] >= 4 /\ m[2] > m[1] + 1
        /\ buf[1] = ESC /\ buf[2] = "[" /\ buf[m[1]] = ";" /\ buf[m[2]] = "R"
        /\ AllDigits(SubSeq(buf, 3, m[1] - 1))
        /\ AllDigits(SubSeq(buf, m[1] + 1, m[2] - 1))}

Group2(buf, m) == SubSeq(buf, m[1] + 1, m[2] - 1)

\* cursor_column of src/mpr_thing/mpr_thing.py, q the bytes the console
\* delivers: it reads up to 10 bytes, up to the first 'R'; readchar returns
\* None when no byte is waiting, and buf += None is a TypeError.
OldCursorColumn(q) ==
    LET n  == IF Len(q) < QueryReadsOld THEN Len(q) ELSE QueryReadsOld
        Rs == {k \in 1..n : q[k] = "R"}
    IN  IF Rs # {}
        THEN LET k   == Min(Rs)
                 buf == SubSeq(q, 1, k)
                 M   == OldPattern(buf)
                 g   == Group2(buf, CHOOSE m \in M : TRUE)
             IN  [col |-> IF M = {} \/ g = <<>> THEN NoMatch ELSE ToInt(g),
                  err |-> IF M # {} /\ g = <<>> THEN "ValueError" ELSE "none",
                  eaten |-> buf, rest |-> SubSeq(q, k + 1, Len(q))]
        ELSE IF Len(q) >= QueryReadsOld
        THEN [col |-> NoMatch, err |-> "none",
              eaten |-> SubSeq(q, 1, n), rest |-> SubSeq(q, n + 1, Len(q))]
        ELSE [col |-> NoMatch, err |-> "TypeError", eaten |-> q, rest |-> <<>>]

\* A byte that starts a character of several bytes in UTF-8.
NonAscii == "\\xc3"

\* response.decode(): the bytes read so far are UTF-8 (no byte that follows
\* a NonAscii is modelled, so a response with one in it is not).
Decodable(buf) == \A i \in 1..Len(buf) : buf[i] # NonAscii

\* query_console and cursor_column of src/src/mpr_thing/mpr_thing.py: every
\* byte read is added to the response, which is decoded and matched after
\* each byte.
NewCursorColumn(q) ==
    LET n == IF Len(q) < QueryReadsNew THEN Len(q) ELSE QueryReadsNew
        K == {k \in 1..n : NewPattern(SubSeq(q, 1, k)) # {}}
        D == {k \in 1..n : q[k] = NonAscii}
    IN  IF D # {} /\ (K = {} \/ Min(D) < Min(K))
        THEN [col |-> NoMatch, err |-> "UnicodeDecodeError",
              eaten |-> SubSeq(q, 1, Min(D)), rest |-> SubSeq(q, Min(D) + 1, Len(q))]
        ELSE IF K # {}
        THEN LET k   == Min(K)
                 buf == SubSeq(q, 1, k)
             IN  [col |-> ToInt(Group2(buf, CHOOSE m \in NewPattern(buf) : TRUE)),
                  err |-> "none", eaten |-> buf, rest |-> SubSeq(q, k + 1, Len(q))]
        ELSE [col |-> NoMatch, err |-> "none",
              eaten |-> SubSeq(q, 1, n), rest |-> SubSeq(q, n + 1, Len(q))]

CursorColumn(q) == IF impl = "class" THEN OldCursorColumn(q) ELSE NewCursorColumn(q)

\* The escape test: c == b"!" and at_prompt and (beginning_of_line or
\* cursor_column(...) == 5), evaluated left to right.
IsTrigger(c) == c \in {"%", "!"}
NeedsQuery(c, at_prompt, bol) == IsTrigger(c) /\ at_prompt /\ ~bol
AcceptsNoPrompt(c, at_prompt, bol, col) == IsTrigger(c) /\ (bol \/ col = PromptCol)
Accepts(c, at_prompt, bol, col) ==
    IsTrigger(c) /\ at_prompt /\ (bol \/ col = PromptCol)

QuitBytes == IF impl = "class" THEN {"^]"} ELSE {"^]", "^X"}

\* beginning_of_line after a byte was forwarded
BolAfter(c) == IF impl = "class" THEN c = "\\r" ELSE c \in {"\\r", "\\n"}

\* The prompt detector, byte at a time (src/mpr_thing/mpr_thing.py 155-164)
OldDetect(at_prompt, count, b) ==
    IF b = Prompt[count + 1]
    THEN IF count + 1 = Len(Prompt)
         THEN [at_prompt |-> TRUE, count |-> 0]
         ELSE [at_prompt |-> FALSE, count |-> count + 1]
    ELSE [at_prompt |-> at_prompt, count |-> 0]

\* prompt in serial_buffer
Contains(buf, pat) ==
    \E i \in 0..(Len(buf) - Len(pat)) : SubSeq(buf, i + 1, i + Len(pat)) = pat

LastN(buf, n) == IF Len(buf) <= n THEN buf ELSE SubSeq(buf, Len(buf) - n + 1, Len(buf))

\* The prompt detector, chunk at a time (src/src/mpr_thing/mpr_thing.py 172-177)
NewDetect(seen_prompt, serial_buffer, data) ==
    LET s1  == IF \E i \in 1..Len(data) : data[i] = "\\n" THEN FALSE ELSE seen_prompt
        buf == serial_buffer \o data
    IN  [seen_prompt |-> IF ~s1 THEN Contains(buf, Prompt) ELSE s1,
         serial_buffer |-> LastN(buf, Len(Prompt))]

Lp0 == [state |-> "PassThrough", at_prompt |-> FALSE, beginning_of_line |-> FALSE,
        prompt_char_count |-> 0, serial_buffer |-> <<>>, attached |-> TRUE,
        paired |-> TRUE,
        code_to_inject |-> "unread"]

\* helper and afterReset are history: is the helper code on the board, and has
\* the loop handled a reset ("reset") and the shell loaded the helper since
\* ("reloaded").
Shell0 == [active |-> "none", multi_cmd_mode |-> FALSE, loaded |-> FALSE,
           restore_repl |-> FALSE, ncmd |-> 0, helper |-> FALSE,
           afterReset |-> "no"]

Last0 == [c |-> "None", at_prompt |-> FALSE, bol |-> FALSE, queried |-> FALSE,
          col |-> NotQueried, handed |-> FALSE, shellExc |-> "none",
          interrupted |-> FALSE, dtr |-> TRUE, ran |-> FALSE,
          detached |-> FALSE, returned |-> FALSE,
          devpart |-> FALSE, ioerr |-> "none", echo |-> <<>>]

LoopInit ==
    /\ lp = Lp0
    /\ conin = <<>>
    /\ devq = <<>>
    /\ fwd = <<>>
    /\ owed = <<>>
    /\ shell = Shell0
    /\ last = Last0
    /\ env = [typed |-> 0, emits |-> 0, cturn |-> 0, dturn |-> 0]

\* remote.reset_hooks() (commands.py 847-848) and
\* magic_command_interpreter.reinitialise_board() (remote_commands.py 438-440),
\* after a reset that did (wiped) or did not restart the board.
ResetHooksKeep(sh, wiped) ==
    [sh EXCEPT !.helper = @ /\ ~wiped, !.afterReset = "reset"]
ResetHooks(sh, wiped) ==
    [sh EXCEPT !.loaded = FALSE, !.helper = @ /\ ~wiped, !.afterReset = "reset"]

\* load_hooks() in RemoteCmd.preloop (commands.py 1062-1064) and
\* RemoteCmd.initialise (remote_commands.py 428-436) when they succeed.
LoadHelper(sh) ==
    IF sh.loaded THEN sh
    ELSE [sh EXCEPT !.loaded = TRUE, !.helper = TRUE,
                    !.afterReset = IF @ = "no" THEN "no" ELSE "reloaded"]

\* The second half of an iteration: the bytes of the device (old lines 137-164,
\* new lines 146-177).  ioerr is what serial.inWaiting() does.
DevicePartDropping(l, dq, ioerr) ==
    [lp |-> l, devq |-> <<>>, echo |-> IF dq = <<>> THEN <<>> ELSE <<Head(dq)>>]

\* "EIO": OSError with errno 5; "other": an OSError with any other first
\* argument, after which n is still 0.  echo: what is written to the console.
DevicePart(l, dq, ioerr) ==
    IF ioerr = "EIO"
    THEN [lp |-> [l EXCEPT !.state = "Disconnected"], devq |-> dq, echo |-> <<>>]
    ELSE IF ioerr = "other" \/ dq = <<>>
    THEN [lp |-> l, devq |-> dq, echo |-> <<>>]
    ELSE IF impl = "class"
    THEN LET d == OldDetect(l.at_prompt, l.prompt_char_count, Head(dq))
         IN  [lp |-> [l EXCEPT !.at_prompt = d.at_prompt,
                               !.prompt_char_count = d.count],
              devq |-> Tail(dq), echo |-> <<Head(dq)>>]
    ELSE LET d == NewDetect(l.at_prompt, l.serial_buffer, dq)
         IN  [lp |-> [l EXCEPT !.at_prompt = d.seen_prompt,
                               !.serial_buffer = d.serial_buffer],
              devq |-> <<>>, echo |-> dq]

\* console_in.exit() and console_in.enter(); paired records that the calls
\* have alternated so far.
Detach(l) == [l EXCEPT !.attached = FALSE, !.paired = @ /\ l.attached]
Attach(l) == [l EXCEPT !.attached = TRUE, !.paired = @ /\ ~l.attached]

UserOnly(s) == SelectSeq(s, LAMBDA b : b \in UserBytes)

\* How ctrl-K can go: enter_raw_repl raises ("PyboardError"), the script file
\* cannot be opened or read ("OSError"), exec_raw_no_follow raises the error
\* the branch catches ("SendError"), or all of it works ("ok").
InjectOutcomes == {"ok", "PyboardError", "OSError", "SendError"}

\* ctrl-K, inject script (old lines 99-111, new lines 115-126): enter the raw
\* repl, read the file, send it (an error of the device is printed), leave
\* the raw repl.  An exception of open() or read() leaves the loop.
InjectScript(base, how) ==
    CASE how = "ok" ->
            [base EXCEPT
                !.pyb = exit_raw_repl(pyb_exec(enter_raw_repl(FreshPyb(pyb), FALSE, how))),
                !.lp.beginning_of_line = TRUE]
      [] how = "SendError" ->
            [base EXCEPT
                !.pyb = exit_raw_repl(BodyWrites(enter_raw_repl(FreshPyb(pyb), FALSE, "ok"),
                                                 "PyboardError")),
                !.lp.beginning_of_line = TRUE]
      [] how = "OSError" ->
            [base EXCEPT
                !.go = "raise", !.lp.state = "Crashed",
                !.pyb = enter_raw_repl(FreshPyb(pyb), FALSE, "ok")]
      [] OTHER ->
            [base EXCEPT
                !.go = "raise", !.lp.state = "Crashed",
                !.pyb = enter_raw_repl(FreshPyb(pyb), FALSE, how)]

\* The first half of an iteration: the console byte c (old lines 83-135, new
\* lines 99-144).  resp is the terminal's answer to a cursor query, how the
\* outcome of enter_raw_repl, init the outcome of the shell's initialise(),
\* dtr whether hard_reset could toggle DTR, inject whether code_to_inject is
\* not None (the option is fixed for the run: it is "unread" until the loop
\* first tests it, and keeps the value it had then).
\* go: "device" (go on to the device's bytes), "break", "shell" (the shell has
\* the console), "raise" (an exception leaves the loop), "next" (the new loop's
\* except KeyboardInterrupt clause ends the iteration).
ConsolePart(c, rest, resp, how, init, dtr, inject) ==
    LET base == [go |-> "device", lp |-> lp, conin |-> rest, fwd |-> fwd,
                 owed |-> owed, pyb |-> pyb, shell |-> shell,
                 last |-> [Last0 EXCEPT !.c = c, !.at_prompt = lp.at_prompt,
                                        !.bol = lp.beginning_of_line]]
        ask  == NeedsQuery(c, lp.at_prompt, lp.beginning_of_line)
        q    == IF ask THEN CursorColumn(rest \o resp)
                ELSE [col |-> NotQueried, err |-> "none", eaten |-> <<>>, rest |-> rest]
        seen == [base EXCEPT !.last.queried = ask, !.last.col = q.col]
        forwarded == [seen EXCEPT !.conin = q.rest,
                                  !.fwd = Append(fwd, c),
                                  !.owed = (owed \o <<c>>) \o UserOnly(q.eaten),
                                  !.lp.beginning_of_line = BolAfter(c)]
        handed == [seen EXCEPT !.go = "shell", !.conin = <<>>,
                               !.last.handed = TRUE,
                               !.last.detached = TRUE,
                               !.lp = [Detach(lp) EXCEPT !.state = "ShellActive"],
                               !.shell.ncmd = 0]
    IN  CASE c = "None" -> [base EXCEPT !.conin = <<>>]
          [] c \in QuitBytes -> [base EXCEPT !.go = "break", !.lp.state = "Quit"]
          [] c = "^D" ->
                [base EXCEPT !.lp.beginning_of_line = TRUE,
                             !.shell = ResetHooks(shell, TRUE)]
          [] c = "^R" ->
                [base EXCEPT !.lp.beginning_of_line = TRUE,
                             !.shell = ResetHooks(shell, dtr),
                             !.last.dtr = dtr]
          [] c = "\\n" /\ inject -> [base EXCEPT !.lp.code_to_inject = "bytes"]
          [] c = "\\n" /\ ~inject ->
                [forwarded EXCEPT !.lp.code_to_inject = "None"]
          [] c = "^K" -> InjectScript(base, how)
          [] IsTrigger(c) /\ q.err # "none" ->
                [seen EXCEPT !.go = "raise", !.lp.state = "Crashed", !.conin = q.rest,
                             !.owed = (owed \o <<c>>) \o UserOnly(q.eaten)]
          [] IsTrigger(c) /\ q.err = "none"
               /\ Accepts(c, lp.at_prompt, lp.beginning_of_line, q.col) ->
                IF impl = "class"
                THEN IF c = "!"
                     THEN LET r == ClassEnterOp(FreshPyb(pyb), FALSE, how)
                          IN  IF r.exc = "none"
                              THEN [handed EXCEPT !.pyb = r.pyb,
                                                  !.shell.active = "local",
                                                  !.shell.restore_repl = r.restore_repl]
                              ELSE [handed EXCEPT !.go = "raise", !.pyb = r.pyb,
                                                  !.lp.state = "Crashed"]
                     ELSE [handed EXCEPT !.shell.active = "remote"]
                ELSE IF shell.loaded \/ init = "ok"
                     THEN [handed EXCEPT
                             !.shell = [LoadHelper(shell) EXCEPT
                                          !.ncmd = 0,
                                          !.active = IF c = "!" THEN "local"
                                                     ELSE "remote"]]
                     ELSE IF init = "KeyboardInterrupt"
                     THEN [handed EXCEPT
                             !.go = "next", !.conin = q.rest,
                             !.last.interrupted = TRUE,
                             !.lp = [Attach(Detach(Attach(Detach(lp))))
                                       EXCEPT !.state = "PassThrough"]]
                     ELSE [handed EXCEPT
                             !.go = "raise", !.conin = q.rest,
                             !.lp = [Attach(Detach(lp)) EXCEPT !.state = "Crashed"]]
          [] OTHER -> forwarded

IoErrs == {"none", "EIO", "other"}
InitOutcomes == {"ok", "KeyboardInterrupt", "Exception"}

\* The user types a byte on the console while the loop owns it.
UserTypes(b) ==
    /\ lp.state = "PassThrough"
    /\ env.typed < MaxTyped
    /\ conin' = Append(conin, b)
    /\ env' = [env EXCEPT !.typed = @ + 1]
    /\ UNCHANGED <<lp, devq, fwd, owed, shell, last, pyb, impl, scopeVars, det, fsys, tree, meta, moreVars>>

\* The device sends a burst of output.
DevEmits(burst) ==
    /\ lp.state = "PassThrough"
    /\ env.emits < MaxEmit
    /\ devq' = devq \o burst
    /\ env' = [env EXCEPT !.emits = @ + 1]
    /\ UNCHANGED <<lp, conin, fwd, owed, shell, last, pyb, impl, scopeVars, det, fsys, tree, meta, moreVars>>

PendingConsoleOnly(cq, dq) == cq # <<>>

\* The only blocking call of the loop: select() on the console and the device
\* (old 76-82, new line 96: console_in.waitchar(transport.serial)) returns
\* when one of the two is readable.
Pending(cq, dq) == cq # <<>> \/ dq # <<>>

\* One iteration of "while True": the wait returns because the console or the
\* device is readable, then the console byte, then the device's bytes.
\* logged: the bytes written to the device are recorded in fwd and owed;
\* otherwise only the turns are recorded (and last is left alone): env.cturn
\* flips when a console byte is handled, env.dturn when device bytes are
\* echoed.
Iteration(resp, how, init, ioerr, dtr, inject, logged) ==
    /\ lp.state = "PassThrough"
    /\ Pending(conin, devq)
    /\ LET c    == IF conin = <<>> THEN "None" ELSE Head(conin)
           rest == IF conin = <<>> THEN <<>> ELSE Tail(conin)
           ask  == NeedsQuery(c, lp.at_prompt, lp.beginning_of_line)
       IN  /\ (~ask => resp = <<>>)
           /\ (how # "ok" => c \in {"^K", "!"})
           /\ (how \in {"OSError", "SendError"} => c = "^K")
           /\ (init # "ok" => IsTrigger(c) /\ impl = "gen")
           /\ (~dtr => c = "^R")
           /\ inject = IF c = "\\n" /\ lp.code_to_inject = "unread"
                       THEN inject ELSE lp.code_to_inject # "None"
           /\ \E r \in {ConsolePart(c, rest, resp, how, init, dtr, inject)} :
              \E d \in {DevicePart(r.lp, devq, ioerr)} :
                /\ (r.go # "device" => ioerr = "none")
                /\ fwd' = IF logged THEN r.fwd ELSE fwd
                /\ owed' = IF logged THEN r.owed ELSE owed
                /\ pyb' = r.pyb
                /\ shell' = r.shell
                /\ conin' = r.conin
                /\ IF r.go = "device"
                   THEN /\ lp' = d.lp
                        /\ devq' = d.devq
                        /\ last' = IF logged
                                   THEN [r.last EXCEPT !.devpart = TRUE,
                                                       !.ioerr = ioerr,
                                                       !.echo = d.echo]
                                   ELSE last
                   ELSE /\ lp' = r.lp
                        /\ devq' = devq
                        /\ last' = IF logged THEN r.last ELSE last
                /\ env' = IF logged THEN env
                          ELSE [env EXCEPT
                                  !.cturn = IF c # "None" THEN 1 - @ ELSE @,
                                  !.dturn = IF r.go = "device" /\ d.echo # <<>>
                                            THEN 1 - @ ELSE @]
    /\ UNCHANGED <<impl, scopeVars, det, fsys, tree, meta, moreVars>>

LoopIter(resp, how, init, ioerr, dtr, inject) ==
    Iteration(resp, how, init, ioerr, dtr, inject, TRUE)

AfterShellNoEnter(l, p) ==
    [lp |-> [l EXCEPT !.state = "PassThrough", !.beginning_of_line = TRUE], pyb |-> p]

\* The shell returns normally: the rest of the branch that called it, then
\* the device's bytes of the same iteration.
AfterShell(l, p) ==
    LET x  == IF impl = "class" /\ shell.active = "local"
              THEN ClassExitOp(p, [restore_repl |-> shell.restore_repl,
                                   reraise |-> FALSE], "none").pyb
              ELSE p
        l1 == [Attach(l) EXCEPT !.state = "PassThrough",
                                !.beginning_of_line = TRUE]
    IN  [lp |-> l1, pyb |-> x]

\* "preloop": the exception comes from load_hooks() in RemoteCmd.preloop.
ShellKinds == {"run", "%%", "quit", "preloop"}

\* Does the shell stop after a command that ended with out?  multi is
\* multi_cmd_mode after the command.
\*   RemoteCmd.cmdloop (commands.py 1119-1131): an exception restarts cmdloop
\*   LocalCmd (commands.py 197-205): postcmd returns True; Exception is printed
\*   BaseCommands.run (base_commands.py 741-759): stop = not multi_cmd_mode
ShellStops(active, multi, out) ==
    IF impl = "class"
    THEN IF active = "local" THEN out # "KeyboardInterrupt"
         ELSE out = "ok" /\ ~multi
    ELSE ~multi

\* Does the exception out of a command leave the shell (and the loop)?
ShellPropagatesTransport(active, out) == out = "TransportError"
ShellPropagates(active, out) ==
    impl = "class" /\ active = "local" /\ out = "KeyboardInterrupt"

\* The shell reads a command line and runs it; out is how the command ends.
ShellCmd(kind, out, ioerr) ==
    /\ lp.state = "ShellActive"
    /\ kind = "%%" => (out = "ok" /\ ~shell.multi_cmd_mode /\ shell.active = "remote")
    /\ kind = "quit" => (out = "ok" /\ shell.multi_cmd_mode)
    /\ kind = "preloop" =>
          (out # "ok" /\ impl = "class" /\ shell.active = "remote" /\ ~shell.loaded)
    /\ shell.active = "local" /\ impl = "class"
          => out \in {"ok", "KeyboardInterrupt", "Exception"}
    /\ LET multi == CASE kind = "%%" -> TRUE
                      [] kind = "quit" -> FALSE
                      [] OTHER -> shell.multi_cmd_mode
           stops == ShellStops(shell.active, multi, out)
           sh0   == IF impl = "class" /\ shell.active = "remote" /\ kind # "preloop"
                    THEN LoadHelper(shell) ELSE shell
           sh    == [sh0 EXCEPT !.multi_cmd_mode = multi, !.ncmd = @ + 1]
           dq    == IF shell.active = "remote" THEN <<>> ELSE devq
           ret   == stops /\ ~ShellPropagates(shell.active, out)
       IN  \E a \in {AfterShell(lp, pyb)} : \E d \in {DevicePart(a.lp, dq, ioerr)} :
           /\ (~stops /\ ~ShellPropagates(shell.active, out)) => shell.ncmd < MaxCmds
           /\ (~ret => ioerr = "none")
           /\ last' = [Last0 EXCEPT
                         !.shellExc = IF out = "ok" THEN "none" ELSE out,
                         !.ran = kind # "preloop"
                                 /\ ~(impl = "class" /\ shell.active = "local"),
                         !.returned = ret,
                         !.devpart = ret,
                         !.ioerr = IF ret THEN ioerr ELSE "none",
                         !.echo = IF ret THEN d.echo ELSE <<>>]
           /\ IF ShellPropagates(shell.active, out)
              THEN /\ lp' = [lp EXCEPT !.state = "Crashed"]
                   /\ pyb' = ClassExitOp(pyb, [restore_repl |-> shell.restore_repl,
                                               reraise |-> FALSE], out).pyb
                   /\ shell' = [sh EXCEPT !.active = "none"]
                   /\ devq' = dq
              ELSE IF stops
              THEN /\ lp' = d.lp
                   /\ devq' = d.devq
                   /\ pyb' = a.pyb
                   /\ shell' = [sh EXCEPT !.active = "none"]
              ELSE /\ lp' = lp
                   /\ devq' = dq
                   /\ pyb' = pyb
                   /\ shell' = sh
    /\ UNCHANGED <<conin, fwd, owed, env, impl, scopeVars, det, fsys, tree, meta, moreVars>>

\* A KeyboardInterrupt is raised in the loop itself while it waits in
\* PassThrough: the new loop re-attaches the console and goes on (lines
\* 178-181), the old loop has no handler.
LoopInterrupt ==
    /\ lp.state = "PassThrough"
    /\ ~last.interrupted
    /\ lp' = IF impl = "class" THEN [lp EXCEPT !.state = "Crashed"]
             ELSE Attach(Detach(lp))
    /\ last' = [Last0 EXCEPT !.interrupted = TRUE, !.detached = impl = "gen"]
    /\ UNCHANGED <<conin, devq, fwd, owed, shell, env, pyb, impl, scopeVars, det, fsys, tree, meta, moreVars>>

\* The outcomes that the byte the loop is about to read can have.
NextByte == IF conin = <<>> THEN "None" ELSE Head(conin)
HowsNow  == CASE NextByte = "^K" -> InjectOutcomes
              [] NextByte = "!" -> {"ok", "PyboardError"}
              [] OTHER -> {"ok"}
InitsNow == IF IsTrigger(NextByte) /\ impl = "gen" THEN InitOutcomes ELSE {"ok"}
DtrsNow  == IF NextByte = "^R" THEN BOOLEAN ELSE {TRUE}

LoopNext ==
    \/ \E b \in UserBytes : UserTypes(b)
    \/ \E burst \in DevBursts : DevEmits(burst)
    \/ \E resp \in Responses, how \in HowsNow, init \in InitsNow,
          ioerr \in IoErrs, dtr \in DtrsNow, inject \in BOOLEAN :
             LoopIter(resp, how, init, ioerr, dtr, inject)
    \/ \E kind \in ShellKinds, out \in ShellExc \cup {"ok"}, ioerr \in IoErrs :
          ShellCmd(kind, out, ioerr)
    \/ LoopInterrupt

(***************************************************************************)
(* The prompt detector of src/mpr_thing/mpr_thing.py on its own, fed any   *)
(* sequence of device bytes one at a time, and the prompt detector of      *)
(* src/src/mpr_thing/mpr_thing.py fed any sequence of chunks.              *)
(***************************************************************************)
MaxFeed == 6       \* bytes fed to the detector
MaxChunk == 2      \* bytes the device part reads in one call of serial.read(n)

DetBytes == {"\\n", ">", " ", "x"}

\* dev_data_in: what serial.read(n) may return
Chunks == UNION {[1..n -> DetBytes] : n \in 1..MaxChunk}

DetInit == det = [fed |-> <<>>, at_prompt |-> FALSE, count |-> 0, turned |-> FALSE,
                  serial_buffer |-> <<>>]

\* The device part of one iteration of the old loop reads the byte b.
DetFeed(b) ==
    /\ impl = "class"
    /\ Len(det.fed) < MaxFeed
    /\ LET d == OldDetect(det.at_prompt, det.count, b)
       IN  det' = [fed |-> Append(det.fed, b), at_prompt |-> d.at_prompt,
                   count |-> d.count, turned |-> d.at_prompt /\ ~det.at_prompt,
                   serial_buffer |-> det.serial_buffer]
    /\ UNCHANGED <<impl, pyb, scopeVars, loopVars, fsys, tree, meta, moreVars>>

\* The device part of one iteration of the new loop reads the chunk data.
DetFeedChunk(data) ==
    /\ impl = "gen"
    /\ Len(det.fed) + Len(data) <= MaxFeed
    /\ LET d == NewDetect(det.at_prompt, det.serial_buffer, data)
       IN  det' = [fed |-> det.fed \o data, at_prompt |-> d.seen_prompt,
                   count |-> det.count, turned |-> d.seen_prompt /\ ~det.at_prompt,
                   serial_buffer |-> d.serial_buffer]
    /\ UNCHANGED <<impl, pyb, scopeVars, loopVars, fsys, tree, meta, moreVars>>

DetNext ==
    \/ \E b \in DetBytes : DetFeed(b)
    \/ \E data \in Chunks : DetFeedChunk(data)

(***************************************************************************)
(* The loop with an environment that never stops: the user and the device  *)
(* may add bytes whenever fewer than MaxPending are waiting.               *)
(***************************************************************************)
MaxPending == 2
PumpBytes == {"%", "\\r"}

PumpTypes(b) ==
    /\ lp.state = "PassThrough"
    /\ Len(conin) < MaxPending
    /\ conin' = Append(conin, b)
    /\ UNCHANGED <<lp, devq, fwd, owed, shell, last, env, pyb, impl, scopeVars, det, fsys, tree, meta, moreVars>>

PumpEmits(burst) ==
    /\ lp.state = "PassThrough"
    /\ Len(devq) < MaxPending
    /\ devq' = devq \o burst
    /\ UNCHANGED <<lp, conin, fwd, owed, shell, last, env, pyb, impl, scopeVars, det, fsys, tree, meta, moreVars>>

PumpIter(resp, how, init, ioerr, dtr, inject) ==
    Iteration(resp, how, init, ioerr, dtr, inject, FALSE)

PumpNext ==
    \/ \E b \in PumpBytes : PumpTypes(b)
    \/ \E burst \in DevBursts : PumpEmits(burst)
    \/ \E resp \in Responses, ioerr \in IoErrs, inject \in BOOLEAN :
          PumpIter(resp, "ok", "ok", ioerr, TRUE, inject)

\* As long as the loop runs it goes round: an iteration in which nothing
\* fails is taken when the wait can return.
PumpFair ==
    \E resp \in Responses, inject \in BOOLEAN :
        PumpIter(resp, "ok", "ok", "none", TRUE, inject)

(***************************************************************************)
(* File commands: the checks before a copy, a move or a removal, and where *)
(* a copy goes (src/src/mpr_thing/board.py, pathfun.py, paths.py).         *)
(***************************************************************************)
MaxSources == 2

\* The places on the board that are tracked, as paths from the root.
Places == {<<"lib">>, <<"lib", "sub">>, <<"lib", "a.py">>, <<"a.py">>}

\* A path as written in a command: absolute, or relative to the board's
\* working directory, which is the root.
Typed == [abs : BOOLEAN, parts : Places]
NoPath == [abs |-> FALSE, parts |-> <<>>]
Resolve(t) == t.parts

Kinds == {"none", "file", "dir"}
KindAt(fs, t) == IF Resolve(t) \in Places THEN fs[Resolve(t)] ELSE "none"
ParentIsDir(fs, parts) ==
    Len(parts) = 1 \/ KindAt(fs, [abs |-> TRUE, parts |-> SubSeq(parts, 1, Len(parts) - 1)]) = "dir"
IsUnder(q, parts) == Len(q) > Len(parts) /\ SubSeq(q, 1, Len(parts)) = parts

\* RemotePath(name).set_modes(stat): the path as written with what the board
\* says is there (exists(), is_file(), is_dir()).
ls_files(fs, names) ==
    [i \in 1..Len(names) |-> [path |-> names[i], kind |-> KindAt(fs, names[i])]]
NoDest == [path |-> NoPath, kind |-> "none"]

\* PurePosixPath.parents: the leading parts of the path as written.
Parents(t) ==
    {[abs |-> t.abs, parts |-> SubSeq(t.parts, 1, n)] : n \in 1..(Len(t.parts) - 1)}

\* dest / f.name
Join(d, f) == [abs |-> d.abs, parts |-> Append(d.parts, f.parts[Len(f.parts)])]

\* Python's ==: a str and a Path object are never equal.
StrOf(t) == [type |-> "str", v |-> t]
PathOf(t) == [type |-> "Path", v |-> t]
PyEq(a, b) == a.type = b.type /\ a.v = b.v

\* "source is same as dest" in the three versions of check_files.
SameAsDest(api, f, dest) ==
    CASE api = "board"   -> PyEq(StrOf(f.path), StrOf(dest.path))
      [] api = "pathfun" -> PyEq(StrOf(f.path), PathOf(dest.path))
      [] api = "paths"   -> PyEq(StrOf(f.path), StrOf(dest.path))

NeedsRecursiveNever(cmd) == FALSE

\* The commands that refuse a directory without the option "r".
NeedsRecursive(cmd) == cmd \in {"rm", "cp", "get", "put"}

Rejected(err) == [files |-> <<>>, dest |-> NoDest, err |-> err]

\* check_files(cmd, filenames, dest, opts): files and dest are already
\* looked up; r is "r" in opts.
check_files(api, cmd, files, dest, r) ==
    LET n       == Len(files)
        missing == \E i \in 1..n : files[i].kind = "none"
        dirs    == \E i \in 1..n : files[i].kind = "dir"
        sub(i)  == files[i].kind = "dir" /\ files[i].path \in Parents(dest.path)
        same(i) == SameAsDest(api, files[i], dest)
        bad     == {i \in 1..n : sub(i) \/ same(i)}
        first   == CHOOSE i \in bad : \A j \in bad : i <= j
    IN  IF missing THEN Rejected("missing")
        ELSE IF dest # NoDest /\ bad # {}
        THEN Rejected(IF sub(first) THEN "subfolder" ELSE "same")
        ELSE IF dirs /\ NeedsRecursive(cmd) /\ ~r THEN Rejected("dirs")
        ELSE [files |-> files, dest |-> dest, err |-> "none"]

ValidationErrors == {"missing", "subfolder", "same", "dirs"}

PathsOf(files) == [i \in 1..Len(files) |-> files[i].path]
SelectKind(files, k) == SelectSeq(files, LAMBDA f : f.kind = k)

\* A copy or a rename of src cannot be made at dst when an entry of the
\* other kind is there (mkdir raises FileExistsError, a directory cannot be
\* opened for writing).
Conflict(fs, c) ==
    \/ c.src.kind = "dir" /\ KindAt(fs, c.dst) = "file"
    \/ c.src.kind = "file" /\ KindAt(fs, c.dst) = "dir"

\* The copies of plan are made in order; the first that fails ends the command.
RECURSIVE MadeOf(_, _)
MadeOf(fs, plan) ==
    IF plan = <<>> \/ Conflict(fs, Head(plan)) THEN <<>>
    ELSE <<Head(plan)>> \o MadeOf(fs, Tail(plan))

\* The board's files after the entries of made are created (kept: the source
\* stays) or moved.
RECURSIVE Place(_, _, _)
Place(fs, made, kept) ==
    IF made = <<>> THEN fs
    ELSE LET c   == Head(made)
             to  == Resolve(c.dst)
             fr  == Resolve(c.src.path)
             ok  == to \in Places /\ ParentIsDir(fs, to) /\ to # fr /\ ~IsUnder(to, fr)
             fs1 == IF ok THEN [fs EXCEPT ![to] = c.src.kind] ELSE fs
             fs2 == IF ok /\ ~kept
                    THEN [q \in Places |->
                            IF q = fr \/ IsUnder(q, fr) THEN "none" ELSE fs1[q]]
                    ELSE fs1
         IN  Place(fs2, Tail(made), kept)

\* _helper.rm(files, opts) on the board.
Remove(fs, files, r) ==
    [q \in Places |->
        IF \E i \in 1..Len(files) :
              LET f == files[i]
              IN  \/ q = Resolve(f.path) /\ (f.kind = "file" \/ r)
                  \/ IsUnder(q, Resolve(f.path)) /\ f.kind = "dir" /\ r
        THEN "none" ELSE fs[q]]

NoRes == [api |-> "none"]
Outcome(api, cmd, srcs, dest, r, c, err, calls, plan, made) ==
    [api |-> api, cmd |-> cmd, srcs |-> srcs, dest |-> dest, r |-> r,
     files |-> c.files, err |-> err, calls |-> calls, plan |-> plan, made |-> made]

FileInit == fsys = [fs |-> [q \in Places |-> "none"], res |-> NoRes]

\* Board.mkdir / Board.touch: a directory or a file appears on the board.
Create(q, kind) ==
    /\ impl = "gen"
    /\ fsys.res = NoRes
    /\ fsys.fs[q] = "none"
    /\ ParentIsDir(fsys.fs, q)
    /\ fsys' = [fsys EXCEPT !.fs[q] = kind]
    /\ UNCHANGED <<rawVars, loopVars, det, tree, meta, moreVars>>

\* Board.rm(filenames, opts)
BoardRm(names, r) ==
    /\ impl = "gen"
    /\ fsys.res = NoRes
    /\ LET srcs == ls_files(fsys.fs, names)
           c    == check_files("board", "rm", srcs, NoDest, r)
           call == [op |-> "rm", srcs |-> PathsOf(c.files), dest |-> NoPath]
       IN  fsys' = [fs |-> Remove(fsys.fs, c.files, r),
                    res |-> Outcome("board", "rm", srcs, NoDest, r, c, c.err,
                                    <<call>>, <<>>, <<>>)]
    /\ UNCHANGED <<rawVars, loopVars, det, tree, meta, moreVars>>

\* Board.mv(filenames, dest, opts); n is "n" in opts, which mv never reads.
BoardMv(names, dest, r, n) ==
    /\ impl = "gen"
    /\ fsys.res = NoRes
    /\ LET srcs   == ls_files(fsys.fs, names)
           dest_f == ls_files(fsys.fs, <<dest>>)[1]
           c      == check_files("board", "mv", srcs, dest_f, r)
           single == Len(c.files) = 1 /\ dest_f.kind # "dir"
           refuse == single /\ ~(dest_f.kind = "none" \/ c.files[1].kind = "file")
           plan   == IF c.files = <<>> \/ refuse THEN <<>>
                     ELSE IF single THEN <<[src |-> c.files[1], dst |-> dest]>>
                     ELSE [i \in 1..Len(c.files) |->
                             [src |-> c.files[i], dst |-> Join(dest, c.files[i].path)]]
           made   == MadeOf(fsys.fs, plan)
           \* a rename that fails raises out of the loop: none follows it
           calls  == [i \in 1..Min({Len(plan), Len(made) + 1}) |->
                        [op |-> "rename", srcs |-> <<plan[i].src.path>>,
                         dest |-> plan[i].dst]]
           err    == IF c.err # "none" THEN c.err
                     ELSE IF refuse THEN "Destination must be directory"
                     ELSE IF made # plan THEN "OSError" ELSE "none"
       IN  fsys' = [fs |-> Place(fsys.fs, made, FALSE),
                    res |-> Outcome("board", "mv", srcs, dest_f, r, c, err,
                                    calls, plan, made) @@ [dry_run |-> n]]
    /\ UNCHANGED <<rawVars, loopVars, det, tree, meta, moreVars>>

CpBranchNoRefusal(filelist, d) ==
    CASE filelist = <<>> -> "none"
      [] Len(filelist) = 1 /\ filelist[1].kind = "file" /\ d \in {"file", "none"}
           -> "cp_file"
      [] Len(filelist) = 1 /\ filelist[1].kind = "dir" /\ d = "none" -> "cp_dir"
      [] OTHER -> "cp"

\* The branch Board.cp takes for the checked sources and a destination of
\* kind d (board.py 304-330).
CpBranch(filelist, d) ==
    CASE filelist = <<>> -> "none"
      [] Len(filelist) = 1 /\ filelist[1].kind = "file" /\ d \in {"file", "none"}
           -> "cp_file"
      [] Len(filelist) = 1 /\ filelist[1].kind = "dir" /\ d = "none" -> "cp_dir"
      [] d # "dir" -> "refuse"
      [] OTHER -> "cp"

\* Board.cp(filenames, dest, opts)
BoardCp(names, dest, r) ==
    /\ impl = "gen"
    /\ fsys.res = NoRes
    /\ LET srcs   == ls_files(fsys.fs, names)
           dest_f == ls_files(fsys.fs, <<dest>>)[1]
           c      == check_files("board", "cp", srcs, dest_f, r)
           files  == SelectKind(c.files, "file")
           dirs   == SelectKind(c.files, "dir")
           how    == CpBranch(c.files, dest_f.kind)
           plan   == CASE how \in {"cp_file", "cp_dir"}
                            -> <<[src |-> c.files[1], dst |-> dest]>>
                       [] how = "cp"
                            -> [i \in 1..Len(c.files) |->
                                  [src |-> (files \o dirs)[i],
                                   dst |-> Join(dest, (files \o dirs)[i].path)]]
                       [] OTHER -> <<>>
           calls  == IF how \in {"cp_file", "cp_dir", "cp"}
                     THEN <<[op |-> how, srcs |-> PathsOf(files \o dirs),
                             dest |-> dest]>>
                     ELSE <<>>
           made   == MadeOf(fsys.fs, plan)
           err    == IF c.err # "none" THEN c.err
                     ELSE IF how = "refuse" THEN "Destination must be a directory"
                     ELSE IF made # plan THEN "OSError" ELSE "none"
       IN  fsys' = [fs |-> Place(fsys.fs, made, TRUE),
                    res |-> Outcome("board", "cp", srcs, dest_f, r, c, err,
                                    calls, plan, made)]
    /\ UNCHANGED <<rawVars, loopVars, det, tree, meta, moreVars>>

\* check_files of pathfun.py applied to the paths of a cp or mv command.
PathfunCheck(cmd, names, dest, r) ==
    /\ impl = "gen"
    /\ fsys.res = NoRes
    /\ LET srcs   == ls_files(fsys.fs, names)
           dest_f == ls_files(fsys.fs, <<dest>>)[1]
           c      == check_files("pathfun", cmd, srcs, dest_f, r)
       IN  fsys' = [fsys EXCEPT !.res = Outcome("pathfun", cmd, srcs, dest_f, r, c,
                                                c.err, <<>>, <<>>, <<>>)]
    /\ UNCHANGED <<rawVars, loopVars, det, tree, meta, moreVars>>

\* "cp" of paths.py: main() checks the paths with the option "r", then cp().
PathsCp(names, dest) ==
    /\ impl = "gen"
    /\ fsys.res = NoRes
    /\ LET srcs   == ls_files(fsys.fs, names)
           dest_f == ls_files(fsys.fs, <<dest>>)[1]
           c      == check_files("paths", "cp", srcs, dest_f, TRUE)
           how    == CASE c.files = <<>> -> "none"
                       [] dest_f.kind = "dir" -> "into"
                       [] Len(c.files) = 1 -> "onto"
                       [] OTHER -> "ValueError"
           plan   == CASE how = "into"
                            -> [i \in 1..Len(c.files) |->
                                  [src |-> c.files[i],
                                   dst |-> Join(dest, c.files[i].path)]]
                       [] how = "onto" -> <<[src |-> c.files[1], dst |-> dest]>>
                       [] OTHER -> <<>>
           made   == MadeOf(fsys.fs, plan)
           err    == IF c.err # "none" THEN c.err
                     ELSE IF how = "ValueError" THEN how
                     ELSE IF made # plan THEN "OSError" ELSE "none"
       IN  fsys' = [fs |-> Place(fsys.fs, made, TRUE),
                    res |-> Outcome("paths", "cp", srcs, dest_f, TRUE, c, err,
                                    <<>>, plan, made)]
    /\ UNCHANGED <<rawVars, loopVars, det, tree, meta, moreVars>>

\* The command is over: the shell prompts for the next one.
FileDone ==
    /\ fsys.res # NoRes
    /\ fsys' = [fsys EXCEPT !.res = NoRes]
    /\ UNCHANGED <<rawVars, loopVars, det, tree, meta, moreVars>>

\* The sources of the commands tried are written as absolute paths, the
\* destination either way.
SourceLists ==
    UNION {[1..n -> {t \in Typed : t.abs}] : n \in 1..MaxSources}

FileNext ==
    \/ \E q \in Places, kind \in {"file", "dir"} : Create(q, kind)
    \/ \E names \in SourceLists, r \in BOOLEAN : BoardRm(names, r)
    \/ \E names \in SourceLists, dest \in Typed, r, n \in BOOLEAN :
          BoardMv(names, dest, r, n)
    \/ \E names \in SourceLists, dest \in Typed, r \in BOOLEAN : BoardCp(names, dest, r)
    \/ \E cmd \in {"cp", "mv"}, names \in SourceLists, dest \in Typed, r \in BOOLEAN :
          PathfunCheck(cmd, names, dest, r)
    \/ \E names \in SourceLists, dest \in Typed : PathsCp(names, dest)
    \/ FileDone

(***************************************************************************)
(* Recursive transfers and removals: Board.get / get_dir and Board.put /    *)
(* put_dir (src/mpr_thing/board.py, src/src/mpr_thing/board.py), cp / rcopy *)
(* and rm of src/src/mpr_thing/paths.py, and _helper.rm of the two          *)
(* cmd_helper.py.  tree.src is the side that is read (or removed from),     *)
(* tree.dst the side that is written.                                       *)
(***************************************************************************)
MaxBatch == 2      \* names in one get, put, cp or rm command

\* The entries a source tree may have, as paths from the root.
TreePaths ==
    {<<"lib">>, <<"lib", "a.py">>, <<"lib", "sub">>, <<"lib", "sub", "b.py">>,
     <<"lib", "sub", "deep">>, <<"lib", "sub", "deep", "c.py">>}

\* The names in use, in the order of their strings.
Names == <<"a.py", "b.py", "c.py", "deep", "lib", "sub">>
Rank(n) == CHOOSE i \in 1..Len(Names) : Names[i] = n

\* The destination that exists (a directory) and a name that does not.
DestRoot == <<"dest">>
NewRoot  == <<"new">>

\* Every place a copy of a part of the source tree can be sent to.
DestPaths ==
    UNION {{root \o SubSeq(p, k, Len(p)) : k \in 1..(Len(p) + 1)} :
              root \in {DestRoot, NewRoot}, p \in TreePaths}

\* What may be at the destination before a command.
Seeds == {DestRoot \o <<"lib">>, DestRoot \o <<"lib", "sub">>}

ParentOf(p) == SubSeq(p, 1, Len(p) - 1)
NameOf(p) == p[Len(p)]
IsPrefix(p, q) == Len(p) <= Len(q) /\ SubSeq(q, 1, Len(p)) = p

\* Path(p).relative_to(base)
RelativeTo(p, base) == SubSeq(p, Len(base) + 1, Len(p))

\* stat of the path p in the tree t
Range(q) == {q[i] : i \in 1..Len(q)}
TKind(t, p) == IF p \in DOMAIN t THEN t[p] ELSE "none"
ParentReady(t, p) == Len(p) = 1 \/ TKind(t, ParentOf(p)) = "dir"
ChildrenOf(t, d) == {p \in DOMAIN t : ParentOf(p) = d /\ t[p] # "none"}
DirsBelow(t, d) == {p \in DOMAIN t : IsPrefix(d, p) /\ t[p] = "dir"}
EntriesBelow(t, d) == {p \in DOMAIN t : IsPrefix(d, p) /\ p # d /\ t[p] # "none"}

\* str(p) < str(q) for two paths of the tree
PathLess(p, q) ==
    \/ IsPrefix(p, q) /\ p # q
    \/ \E k \in 1..Min({Len(p), Len(q)}) :
          /\ SubSeq(p, 1, k - 1) = SubSeq(q, 1, k - 1)
          /\ Rank(p[k]) < Rank(q[k])

\* The paths of S in the order of their strings, or (rev) in the opposite
\* order: os.walk, iterdir and ilistdir promise no order.
RECURSIVE SortPaths(_, _)
SortPaths(S, rev) ==
    IF S = {} THEN <<>>
    ELSE LET m == CHOOSE x \in S : \A y \in S \ {x} :
                      IF rev THEN PathLess(y, x) ELSE PathLess(x, y)
         IN  <<m>> \o SortPaths(S \ {m}, rev)

RECURSIVE FlattenSeq(_)
FlattenSeq(ss) == IF ss = <<>> THEN <<>> ELSE Head(ss) \o FlattenSeq(Tail(ss))

Listed(t, d, rev) == [dir |-> d, files |-> SortPaths(ChildrenOf(t, d), rev)]
NoDirEntry(files) == [dir |-> <<>>, files |-> files]

\* Board.ls_dirs([d], "-R") of src/src: the listing of every directory at or
\* below d, sorted by directory pathname, each sorted by file name.
ls_dirs(t, d) ==
    LET ds == SortPaths(DirsBelow(t, d), FALSE)
    IN  [i \in 1..Len(ds) |-> Listed(t, ds[i], FALSE)]

\* Board.ls([d], "-R") of src/mpr_thing: the directories in the order they
\* are inserted, each right after the directory that holds it.
RECURSIVE OldWalk(_, _)
OldWalk(t, d) ==
    LET here == Listed(t, d, FALSE)
        subs == SelectSeq(here.files, LAMBDA f : t[f] = "dir")
    IN  <<here>> \o FlattenSeq([i \in 1..Len(subs) |-> OldWalk(t, subs[i])])

\* Board.ls([d], "-R"): first the names that are files, then the directories.
ls(gen, t, d) ==
    <<NoDirEntry(IF TKind(t, d) = "file" THEN <<d>> ELSE <<>>)>>
    \o (IF TKind(t, d) # "dir" THEN <<>>
        ELSE IF gen = "class" THEN OldWalk(t, d) ELSE ls_dirs(t, d))

DestDirOwnBase(listing, i, dest) ==
    IF \A j \in 1..i : listing[j].dir = <<>> THEN <<>>
    ELSE dest \o RelativeTo(listing[i].dir, ParentOf(listing[i].dir))

\* get_dir: base is the parent of the first directory of the listing that has
\* a name; the destination of a directory is dest / its path relative to
\* base, and Path() (the working directory) while base is not set.
DestDir(listing, i, dest) ==
    IF \A j \in 1..i : listing[j].dir = <<>> THEN <<>>
    ELSE LET first == CHOOSE k \in 1..i :
                         /\ listing[k].dir # <<>>
                         /\ \A j \in 1..(k - 1) : listing[j].dir = <<>>
         IN  dest \o RelativeTo(listing[i].dir, ParentOf(listing[first].dir))

\* One step of a transfer: make the directory at path (test "is_dir":
\* unless it is one; "exists": after put_file has refused a file in its
\* place, and unless something is there; "blind": whatever is there), write
\* the file at path, or fail on the board before anything is written.
DirStep(from, path, test) ==
    [op |-> "dir", from |-> from, path |-> path, test |-> test]
FileStep(from, path) ==
    [op |-> "file", from |-> from, path |-> path, test |-> "blind"]
RaiseStep(from) ==
    [op |-> "raise", from |-> from, path |-> <<>>, test |-> "blind"]

\* get_dir(dir, dest, verbose, dry_run) for the listing of dir
get_dir(t, listing, dest, dry_run) ==
    IF dry_run THEN <<>>
    ELSE FlattenSeq([i \in 1..Len(listing) |->
            LET destdir == DestDir(listing, i, dest)
                files   == SelectSeq(listing[i].files, LAMBDA f : t[f] = "file")
            IN  (IF destdir = <<>> THEN <<>>
                 ELSE <<DirStep(listing[i].dir, destdir, "is_dir")>>)
                \o [k \in 1..Len(files) |->
                      FileStep(files[k], destdir \o <<NameOf(files[k])>>)]])

RECURSIVE walkBottomUp(_, _, _)
walkBottomUp(t, d, rev) ==
    LET here == Listed(t, d, rev)
        subs == SelectSeq(here.files, LAMBDA f : t[f] = "dir")
    IN  FlattenSeq([i \in 1..Len(subs) |-> walkBottomUp(t, subs[i], rev)]) \o <<here>>

\* os.walk(dir): a directory before the directories it holds.
RECURSIVE walk(_, _, _)
walk(t, d, rev) ==
    LET here == Listed(t, d, rev)
        subs == SelectSeq(here.files, LAMBDA f : t[f] = "dir")
    IN  <<here>> \o FlattenSeq([i \in 1..Len(subs) |-> walk(t, subs[i], rev)])

\* put_dir(dir, dest, opts): put_file of every directory walked, then of the
\* files in it ("n" in opts: nothing is made or written).
put_dir(t, dir, dest, rev, dry_run) ==
    IF dry_run THEN <<>>
    ELSE LET w == walk(t, dir, rev)
         IN  FlattenSeq([i \in 1..Len(w) |->
                LET destdir == dest \o RelativeTo(w[i].dir, ParentOf(dir))
                    files   == SelectSeq(w[i].files, LAMBDA f : t[f] # "dir")
                IN  <<DirStep(w[i].dir, destdir, "exists")>>
                    \o [k \in 1..Len(files) |->
                          FileStep(files[k], destdir \o <<NameOf(files[k])>>)]])

\* rcopy(src, dst): copypath, then the children of a directory.
RECURSIVE rcopy(_, _, _, _)
rcopy(t, src, dst, rev) ==
    IF TKind(t, src) = "dir"
    THEN LET kids == SortPaths(ChildrenOf(t, src), rev)
         IN  <<DirStep(src, dst, "is_dir")>>
             \o FlattenSeq([i \in 1..Len(kids) |->
                   rcopy(t, kids[i], dst \o <<NameOf(kids[i])>>, rev)])
    ELSE IF TKind(t, src) = "file" THEN <<FileStep(src, dst)>>
    ELSE <<>>

\* The steps are taken in order on the tree fs.  A call is logged with the
\* state of its parent directory at that moment.  Board.mkdir reports a
\* failure of the board and returns (tests "exists" and "blind"); any other
\* call that fails raises and ends the command.
RECURSIVE Run(_, _, _)
Run(fs, steps, log) ==
    IF steps = <<>> THEN [fs |-> fs, log |-> log, err |-> "none"]
    ELSE LET s    == Head(steps)
             at   == TKind(fs, s.path)
             call == [op |-> (IF s.op = "dir" THEN "mkdir" ELSE "write"),
                      from |-> s.from, path |-> s.path,
                      ready |-> ParentReady(fs, s.path)]
         IN  IF s.op = "raise" THEN [fs |-> fs, log |-> log, err |-> "PyboardError"]
             ELSE IF s.op = "dir" /\ at = "dir" /\ s.test # "blind"
             THEN Run(fs, Tail(steps), log)
             ELSE IF s.op = "dir" /\ at = "file" /\ s.test = "exists"
             THEN [fs |-> fs, log |-> log, err |-> "OSError"]
             ELSE IF \/ ~ParentReady(fs, s.path)
                     \/ s.path \notin DOMAIN fs
                     \/ s.op = "dir" /\ at # "none"
                     \/ s.op = "file" /\ at = "dir"
             THEN IF s.op = "dir" /\ s.test # "is_dir"
                  THEN Run(fs, Tail(steps), Append(log, call))
                  ELSE [fs |-> fs, log |-> Append(log, call), err |-> "failed"]
             ELSE Run([fs EXCEPT ![s.path] = IF s.op = "dir" THEN "dir" ELSE "file"],
                      Tail(steps), Append(log, call))

\* What a failed call raises: fs_put fails on the board, the calls of get and
\* of cp fail with an OSError.
ErrOf(cmd, e) ==
    IF e = "failed" THEN (IF cmd = "put" THEN "PyboardError" ELSE "OSError") ELSE e

NoTree == [cmd |-> "none"]
TreeOutcome(cmd, names, dest, r, dry_run, steps, out) ==
    [cmd |-> cmd, names |-> names, dest |-> dest, r |-> r, dry_run |-> dry_run,
     src0 |-> tree.src, dst0 |-> tree.dst, steps |-> steps,
     log |-> out.log, err |-> ErrOf(cmd, out.err)]

TreeInit ==
    tree = [src |-> [p \in TreePaths |-> "none"],
            dst |-> [p \in DestPaths |-> IF p = DestRoot THEN "dir" ELSE "none"],
            res |-> NoTree]

\* A file or a directory appears in the tree that will be read.
SrcCreate(p, kind) ==
    /\ tree.res = NoTree
    /\ tree.src[p] = "none"
    /\ ParentReady(tree.src, p)
    /\ tree' = [tree EXCEPT !.src[p] = kind]
    /\ UNCHANGED <<rawVars, loopVars, det, fsys, meta, moreVars>>

\* A file or a directory is at the destination before the command.
DstCreate(p, kind) ==
    /\ tree.res = NoTree
    /\ tree.dst[p] = "none"
    /\ ParentReady(tree.dst, p)
    /\ tree' = [tree EXCEPT !.dst[p] = kind]
    /\ UNCHANGED <<rawVars, loopVars, det, fsys, meta, moreVars>>

\* The steps of Board.get for one of its names (the loop of get).
GetOne(gen, t, f, dest, r, dry_run) ==
    CASE TKind(t, f) = "dir" ->
            IF r THEN get_dir(t, ls(gen, t, f), dest, dry_run) ELSE <<>>
      [] TKind(t, f) = "file" ->
            IF dry_run THEN <<>> ELSE <<FileStep(f, dest \o <<NameOf(f)>>)>>
      [] OTHER -> IF gen = "class" /\ ~dry_run THEN <<RaiseStep(f)>> ELSE <<>>

\* get_file(f, dest) for the only name of a get whose dest is no directory:
\* a file is written at dest; fs_get of anything else fails on the board.
GetOnto(gen, t, f, dest, dry_run) ==
    IF dry_run THEN <<>>
    ELSE IF TKind(t, f) = "file" THEN <<FileStep(f, dest)>>
    ELSE <<RaiseStep(f)>>

\* Board.get(filenames, dest, opts)
Get(names, dest, r, dry_run) ==
    /\ tree.res = NoTree
    /\ LET single == Len(names) = 1 /\ TKind(tree.dst, dest) # "dir"
           nodir  == ~single /\ TKind(tree.dst, dest) # "dir"
           steps  == IF single THEN GetOnto(impl, tree.src, names[1], dest, dry_run)
                     ELSE IF nodir THEN <<>>
                     ELSE FlattenSeq([i \in 1..Len(names) |->
                             GetOne(impl, tree.src, names[i], dest, r, dry_run)])
       IN  \E out \in {Run(tree.dst, steps, <<>>)} :
              tree' = [tree EXCEPT
                 !.dst = out.fs,
                 !.res = TreeOutcome("get", names, dest, r, dry_run, steps,
                            IF nodir THEN [out EXCEPT !.err = "no directory"]
                            ELSE out)]
    /\ UNCHANGED <<rawVars, loopVars, det, fsys, meta, moreVars>>

\* The steps of Board.put for one of its names (the loop of put): a name that
\* is no file on the host becomes a directory on the board.
PutOne(t, f, dest, r, rev, dry_run) ==
    CASE TKind(t, f) = "dir" ->
            IF r THEN put_dir(t, f, dest, rev, dry_run) ELSE <<>>
      [] TKind(t, f) = "file" ->
            IF dry_run THEN <<>> ELSE <<FileStep(f, dest \o <<NameOf(f)>>)>>
      [] OTHER ->
            IF dry_run THEN <<>> ELSE <<DirStep(f, dest \o <<NameOf(f)>>, "blind")>>

\* put_file(f, dest) for the only name of a put whose dest is no directory.
PutOnto(t, f, dest, at, dry_run) ==
    CASE TKind(t, f) = "dir" /\ at = "file" -> <<DirStep(f, dest, "exists")>>
      [] dry_run -> <<>>
      [] TKind(t, f) = "file" -> <<FileStep(f, dest)>>
      [] at = "none" -> <<DirStep(f, dest, "exists")>>
      [] OTHER -> <<>>

\* Board.put(filenames, dest, opts) of src/src/mpr_thing/board.py
Put(names, dest, r, rev, dry_run) ==
    /\ impl = "gen"
    /\ tree.res = NoTree
    /\ LET at     == TKind(tree.dst, dest)
           single == Len(names) = 1 /\ at # "dir"
           nodir  == ~single /\ at # "dir"
           steps  == IF single THEN PutOnto(tree.src, names[1], dest, at, dry_run)
                     ELSE IF nodir THEN <<>>
                     ELSE FlattenSeq([i \in 1..Len(names) |->
                             PutOne(tree.src, names[i], dest, r, rev, dry_run)])
       IN  \E out \in {Run(tree.dst, steps, <<>>)} :
              tree' = [tree EXCEPT
                 !.dst = out.fs,
                 !.res = TreeOutcome("put", names, dest, r, dry_run, steps,
                            IF nodir THEN [out EXCEPT !.err = "no directory"]
                            ELSE out)]
    /\ UNCHANGED <<rawVars, loopVars, det, fsys, meta, moreVars>>

\* cp(files, dest) of src/src/mpr_thing/paths.py
Cp(names, dest, rev) ==
    /\ impl = "gen"
    /\ tree.res = NoTree
    /\ LET at    == TKind(tree.dst, dest)
           steps == IF at = "dir"
                    THEN FlattenSeq([i \in 1..Len(names) |->
                            rcopy(tree.src, names[i], dest \o <<NameOf(names[i])>>, rev)])
                    ELSE IF Len(names) = 1 THEN rcopy(tree.src, names[1], dest, rev)
                    ELSE <<>>
       IN  \E out \in {Run(tree.dst, steps, <<>>)} :
              tree' = [tree EXCEPT
                 !.dst = out.fs,
                 !.res = TreeOutcome("cp", names, dest, TRUE, FALSE, steps,
                            IF at # "dir" /\ Len(names) > 1
                            THEN [out EXCEPT !.err = "ValueError"] ELSE out)]
    /\ UNCHANGED <<rawVars, loopVars, det, fsys, meta, moreVars>>

\* The names given to a transfer.
XferArgs == {<<"lib">>, <<"lib", "a.py">>, <<"lib", "sub">>}
XferLists == UNION {[1..n -> XferArgs] : n \in 1..MaxBatch}

XferNext ==
    \/ \E p \in TreePaths, kind \in {"file", "dir"} : SrcCreate(p, kind)
    \/ \E p \in Seeds, kind \in {"file", "dir"} : DstCreate(p, kind)
    \/ \E names \in XferLists, dest \in {DestRoot, NewRoot}, r, dry_run \in BOOLEAN :
          Get(names, dest, r, dry_run)
    \/ \E names \in XferLists, dest \in {DestRoot, NewRoot}, r, rev, dry_run \in BOOLEAN :
          Put(names, dest, r, rev, dry_run)
    \/ \E names \in XferLists, dest \in {DestRoot, NewRoot}, rev \in BOOLEAN :
          Cp(names, dest, rev)

(***************************************************************************)
(* Removals: rm of the helper on the board (both generations) and rm of    *)
(* paths.py, on the tree tree.src.                                         *)
(***************************************************************************)
\* Board.default_depth: the depth handed to the helper for "-r"
default_depth == 40

\* uos.remove(f) and uos.rmdir(f).  The filesystem of the board decides about
\* uos.remove of an empty directory: littlefs removes it, FAT raises EISDIR.
CanRemove(fs, f, lfs) ==
    \/ TKind(fs, f) = "file"
    \/ TKind(fs, f) = "dir" /\ lfs /\ EntriesBelow(fs, f) = {}
CanRmdir(fs, f) == TKind(fs, f) = "dir" /\ EntriesBelow(fs, f) = {}
Gone(fs, f) == [fs EXCEPT ![f] = "none"]
RmCall(op, fs, f) ==
    [op |-> op, path |-> f, kind |-> TKind(fs, f), empty |-> EntriesBelow(fs, f) = {}]
Printed(o, msg, f) == [o EXCEPT !.out = Append(@, <<msg, f>>)]

\* rm(files, r, v) of src/mpr_thing/board/cmd_helper.py, on the files from
\* the i-th on; o is what has happened so far.
RECURSIVE rm_class(_, _, _, _, _, _)
rm_class(o, files, i, r, lfs, rev) ==
    IF i > Len(files) \/ o.err # "none" THEN o
    ELSE LET f == files[i]
         IN  IF CanRemove(o.fs, f, lfs)
             THEN rm_class([o EXCEPT !.fs = Gone(o.fs, f),
                                     !.log = Append(@, RmCall("remove", o.fs, f))],
                           files, i + 1, r, lfs, rev)
             ELSE IF TKind(o.fs, f) = "none" THEN Printed(o, "No such file:", f)
             ELSE IF TKind(o.fs, f) = "dir"
             THEN IF r > 0
                  THEN LET sub == rm_class(o, SortPaths(ChildrenOf(o.fs, f), rev),
                                           1, r - 1, lfs, rev)
                           did == [sub EXCEPT !.log = Append(@, RmCall("rmdir", sub.fs, f))]
                       IN  IF sub.err # "none" THEN sub
                           ELSE IF CanRmdir(sub.fs, f)
                           THEN rm_class([did EXCEPT !.fs = Gone(sub.fs, f)],
                                         files, i + 1, r, lfs, rev)
                           ELSE [did EXCEPT !.err = "OSError"]
                  ELSE rm_class(Printed(o, "Can not remove directory", f),
                                files, i + 1, r, lfs, rev)
             ELSE rm_class(Printed(o, "Unable to remove:", f), files, i + 1, r, lfs, rev)

\* rm(files, opts) of src/src/mpr_thing/board/cmd_helper.py
RECURSIVE rm_gen(_, _, _, _, _, _)
rm_gen(o, files, i, r, n, rev) ==
    IF i > Len(files) \/ o.err # "none" THEN o
    ELSE LET f == files[i]
         IN  IF TKind(o.fs, f) = "none" THEN Printed(o, "No such file:", f)
             ELSE IF TKind(o.fs, f) # "dir"
             THEN rm_gen(IF n THEN o
                         ELSE [o EXCEPT !.fs = Gone(o.fs, f),
                                        !.log = Append(@, RmCall("remove", o.fs, f))],
                         files, i + 1, r, n, rev)
             ELSE IF r
             THEN LET sub == rm_gen(o, SortPaths(ChildrenOf(o.fs, f), rev), 1, r, n, rev)
                      did == [sub EXCEPT !.log = Append(@, RmCall("rmdir", sub.fs, f))]
                  IN  IF sub.err # "none" THEN sub
                      ELSE IF n THEN rm_gen(sub, files, i + 1, r, n, rev)
                      ELSE IF CanRmdir(sub.fs, f)
                      THEN rm_gen([did EXCEPT !.fs = Gone(sub.fs, f)],
                                  files, i + 1, r, n, rev)
                      ELSE [did EXCEPT !.err = "OSError"]
             ELSE rm_gen(Printed(o, "Can not remove directory", f),
                         files, i + 1, r, n, rev)

\* rm(files, recursive) of src/src/mpr_thing/paths.py
RECURSIVE rm(_, _, _, _, _)
rm(o, files, i, recursive, rev) ==
    IF i > Len(files) \/ o.err # "none" THEN o
    ELSE LET f == files[i]
         IN  IF TKind(o.fs, f) = "file"
             THEN rm([o EXCEPT !.fs = Gone(o.fs, f),
                               !.log = Append(@, RmCall("unlink", o.fs, f))],
                     files, i + 1, recursive, rev)
             ELSE IF TKind(o.fs, f) = "dir"
             THEN IF recursive
                  THEN LET sub == rm(o, SortPaths(ChildrenOf(o.fs, f), rev), 1,
                                     recursive, rev)
                           did == [sub EXCEPT !.log = Append(@, RmCall("rmdir", sub.fs, f))]
                       IN  IF sub.err # "none" THEN sub
                           ELSE IF CanRmdir(sub.fs, f)
                           THEN rm([did EXCEPT !.fs = Gone(sub.fs, f)],
                                   files, i + 1, recursive, rev)
                           ELSE [did EXCEPT !.err = "OSError"]
                  ELSE rm(Printed(o, "Skipping", f), files, i + 1, recursive, rev)
             ELSE rm(o, files, i + 1, recursive, rev)

RmStart == [fs |-> tree.src, log |-> <<>>, out |-> <<>>, err |-> "none"]
RmOutcome(by, names, r, n, lfs, o) ==
    [cmd |-> "rm", by |-> by, names |-> names, r |-> r, n |-> n, lfs |-> lfs,
     src0 |-> tree.src, log |-> o.log, out |-> o.out, err |-> o.err]

\* _helper.rm(names, ...) runs on the board: Board.rm of src/mpr_thing sends
\* the depth default_depth for "-r" and 0 without; the newer helper takes the
\* letters of opts.
HelperRm(names, r, n, lfs, rev) ==
    /\ tree.res = NoTree
    /\ impl = "class" => ~n
    /\ \E o \in {IF impl = "class"
                 THEN rm_class(RmStart, names, 1, IF r THEN default_depth ELSE 0, lfs, rev)
                 ELSE rm_gen(RmStart, names, 1, r, n, rev)} :
          tree' = [tree EXCEPT !.src = o.fs,
                               !.res = RmOutcome("helper", names, r, n, lfs, o)]
    /\ UNCHANGED <<rawVars, loopVars, det, fsys, meta, moreVars>>

\* %rm of src/src/mpr_thing/remote_commands.py: mpfs.rm(args, "r" in opts)
PathsRm(names, recursive, rev) ==
    /\ tree.res = NoTree
    /\ impl = "gen"
    /\ \E o \in {rm(RmStart, names, 1, recursive, rev)} :
          tree' = [tree EXCEPT !.src = o.fs,
                               !.res = RmOutcome("paths", names, recursive, FALSE, FALSE, o)]
    /\ UNCHANGED <<rawVars, loopVars, det, fsys, meta, moreVars>>

RmNext ==
    \/ \E p \in TreePaths, kind \in {"file", "dir"} : SrcCreate(p, kind)
    \/ \E names \in XferLists, r, n, lfs, rev \in BOOLEAN : HelperRm(names, r, n, lfs, rev)
    \/ \E names \in XferLists, recursive, rev \in BOOLEAN : PathsRm(names, recursive, rev)

(***************************************************************************)
(* Recursive listings of several directories.                              *)
(***************************************************************************)
\* _helper.ls_dirs(dirs, opts) of src/src/mpr_thing/board/cmd_helper.py with
\* "R": the last directory of the list is taken off and listed, and the
\* directories found in it are put at the end of the list.
RECURSIVE helper_ls_dirs(_, _, _, _)
helper_ls_dirs(t, dirs, out, rev) ==
    IF dirs = <<>> THEN out
    ELSE LET d    == dirs[Len(dirs)]
             kids == SortPaths(ChildrenOf(t, d), rev)
         IN  helper_ls_dirs(t,
                SubSeq(dirs, 1, Len(dirs) - 1)
                   \o SelectSeq(kids, LAMBDA f : t[f] = "dir"),
                Append(out, [dir |-> d, files |-> kids]), rev)

\* listing.sort(key=lambda d: d[0]): a stable sort by the name of the
\* directory; the files of each directory are sorted by name.
RECURSIVE SortListing(_)
SortListing(listing) ==
    IF listing = <<>> THEN <<>>
    ELSE LET k == CHOOSE i \in 1..Len(listing) :
                    /\ \A j \in 1..Len(listing) : ~PathLess(listing[j].dir, listing[i].dir)
                    /\ \A j \in 1..(i - 1) : listing[j].dir # listing[i].dir
         IN  <<[dir |-> listing[k].dir,
                files |-> SortPaths(Range(listing[k].files), FALSE)]>>
             \o SortListing(SubSeq(listing, 1, k - 1)
                            \o SubSeq(listing, k + 1, Len(listing)))

\* The loop of Board.ls of src/mpr_thing/board.py with "R": the directories
\* found in the i-th directory are inserted right after it.
RECURSIVE class_ls(_, _, _, _)
class_ls(t, dirs, i, out) ==
    IF i > Len(dirs) THEN out
    ELSE LET here == Listed(t, dirs[i], FALSE)
             subs == SelectSeq(here.files, LAMBDA f : t[f] = "dir")
         IN  class_ls(t,
                SubSeq(dirs, 1, i) \o subs \o SubSeq(dirs, i + 1, Len(dirs)),
                i + 1, Append(out, here))

\* Board.ls(filenames, "-R"): the names that are directories are listed.
Ls(names, rev) ==
    /\ tree.res = NoTree
    /\ LET roots == SelectSeq(names, LAMBDA f : TKind(tree.src, f) = "dir")
           files == SelectSeq(names, LAMBDA f : TKind(tree.src, f) = "file")
       IN  \E listing \in {IF impl = "class" THEN class_ls(tree.src, roots, 1, <<>>)
                           ELSE SortListing(helper_ls_dirs(tree.src, roots, <<>>, rev))} :
              tree' = [tree EXCEPT !.res =
                         [cmd |-> "ls", names |-> names, roots |-> roots,
                          files |-> files, listing |-> listing]]
    /\ UNCHANGED <<rawVars, loopVars, det, fsys, meta, moreVars>>

LsNext ==
    \/ \E p \in TreePaths, kind \in {"file", "dir"} : SrcCreate(p, kind)
    \/ /\ tree.res = NoTree
       /\ \E names \in XferLists, rev \in BOOLEAN : Ls(names, rev)

(***************************************************************************)
(* RemotePath, the offset between the clocks of the board and of the host, *)
(* and the tests that decide whether a file needs no copy.                 *)
(***************************************************************************)
MaxLoads == 2      \* assignments of epoch_offset between two calls of reset

S_IFDIR == 16384   \* 0x4000
S_IFREG == 32768   \* 0x8000
\* st_mode of a directory, a regular file, a socket (0o140000) and a
\* character device (0o020000)
FileModes == {S_IFDIR, S_IFREG, S_IFDIR + S_IFREG, 8192}
Sizes == {10, 11}
\* mtimes as the board reports them, offsets between the two clocks, and
\* mtimes of the host
RawTimes == {70, 71, 100, 101}
Offsets == {0, 30}
HostTimes == {100, 101}
\* what uos.stat of the board gives to ls_files: nothing, or mode, size, mtime
Stats == {<<>>} \cup {<<m, z, t>> : m \in FileModes, z \in Sizes, t \in RawTimes}
\* the sequences set_modes accepts
StatSeqs == Stats \cup {<<m>> : m \in FileModes}
                  \cup {<<m, z>> : m \in FileModes, z \in Sizes}

\* mode & bit, for bit a power of two
HasBit(mode, bit) == (mode \div bit) % 2 = 1

\* RemotePath.__init__ of src/src/mpr_thing/remote_path.py
NewRemotePath == [mode |-> 0, size |-> 0, mtime |-> 0, exists |-> FALSE]
\* RemotePath(..., stat, exists) of src/mpr_thing/board.py
RemotePathOf(stat, ex) ==
    [mode  |-> IF Len(stat) >= 1 THEN stat[1] ELSE 0,
     size  |-> IF Len(stat) >= 2 THEN stat[2] ELSE 0,
     mtime |-> IF Len(stat) >= 3 THEN stat[3] ELSE 0,
     exists |-> ex]

set_modes(rp, stat, epoch_offset) ==
    [mode  |-> IF Len(stat) >= 1 THEN stat[1] ELSE 0,
     size  |-> IF Len(stat) >= 2 THEN stat[2] ELSE -1,
     mtime |-> IF Len(stat) >= 3 THEN stat[3] + epoch_offset ELSE -1,
     exists |-> stat # <<>>]
modes(rp, epoch_offset) ==
    IF rp.exists THEN <<rp.mode, rp.size, rp.mtime - epoch_offset>> ELSE <<>>
set_exists(rp, ex) == [rp EXCEPT !.exists = ex]

is_dir(gen, rp) == rp.exists /\ HasBit(rp.mode, S_IFDIR)
is_file(gen, rp) ==
    IF gen = "gen" THEN rp.exists /\ HasBit(rp.mode, S_IFREG)
    ELSE rp.exists /\ ~HasBit(rp.mode, S_IFDIR)
exists(rp) == rp.exists

NoMeta == [cmd |-> "none"]
MetaInit ==
    meta = [epoch_offset |-> 0, helper_loaded |-> FALSE, board_has_utime |-> FALSE,
            assigns |-> 0,
            rp |-> IF impl = "gen" THEN NewRemotePath ELSE RemotePathOf(<<>>, TRUE),
            last |-> [op |-> "none"],
            res |-> NoMeta]

\* Board.load_helper.  The board's answer to utime.mktime gives the offset
\* off.  An eval_json whose code fails on the board gets no answer and raises
\* (json.loads of the empty string): at "mktime" nothing has been assigned
\* yet, at "utime" (the test for os.utime, which needs the name os on the
\* board) the offset has been assigned and helper_loaded has not.
BoardLoadHelper(off, fails, has_utime) ==
    /\ impl = "gen"
    /\ meta.res = NoMeta
    /\ meta.assigns < MaxLoads
    /\ meta' =
         IF meta.helper_loaded \/ fails = "mktime"
         THEN [meta EXCEPT !.last = [op |-> "load_helper", raised |-> ~meta.helper_loaded]]
         ELSE IF fails = "utime"
         THEN [meta EXCEPT !.epoch_offset = off, !.assigns = @ + 1,
                           !.last = [op |-> "load_helper", raised |-> TRUE]]
         ELSE [meta EXCEPT !.epoch_offset = off, !.assigns = @ + 1,
                           !.board_has_utime = has_utime,
                           !.helper_loaded = TRUE,
                           !.last = [op |-> "load_helper", raised |-> FALSE]]
    /\ UNCHANGED <<rawVars, loopVars, det, fsys, tree, moreVars>>

\* Board.reset
BoardReset ==
    /\ impl = "gen"
    /\ meta.res = NoMeta
    /\ meta' = [meta EXCEPT !.helper_loaded = FALSE, !.assigns = 0,
                            !.last = [op |-> "reset"]]
    /\ UNCHANGED <<rawVars, loopVars, det, fsys, tree, moreVars>>

\* RemotePath.set_modes(stat)
SetModes(stat) ==
    /\ impl = "gen"
    /\ meta.res = NoMeta
    /\ meta' = [meta EXCEPT !.rp = set_modes(meta.rp, stat, meta.epoch_offset),
                            !.last = [op |-> "set_modes", stat |-> stat]]
    /\ UNCHANGED <<rawVars, loopVars, det, fsys, tree, moreVars>>

\* RemotePath.set_exists(exists)
SetExists(ex) ==
    /\ impl = "gen"
    /\ meta.res = NoMeta
    /\ meta' = [meta EXCEPT !.rp = set_exists(meta.rp, ex),
                            !.last = [op |-> "set_exists"]]
    /\ UNCHANGED <<rawVars, loopVars, det, fsys, tree, moreVars>>

\* RemotePath.modes()
ReadModes ==
    /\ impl = "gen"
    /\ meta.res = NoMeta
    /\ meta' = [meta EXCEPT !.last = [op |-> "modes",
                                      stat |-> modes(meta.rp, meta.epoch_offset)]]
    /\ UNCHANGED <<rawVars, loopVars, det, fsys, tree, moreVars>>

\* RemotePath(name, stat=..., exists=...) of src/mpr_thing/board.py
NewPath(stat, ex) ==
    /\ impl = "class"
    /\ meta.res = NoMeta
    /\ meta' = [meta EXCEPT !.rp = RemotePathOf(stat, ex),
                            !.last = [op |-> "RemotePath"]]
    /\ UNCHANGED <<rawVars, loopVars, det, fsys, tree, moreVars>>

MetaNext ==
    \/ \E off \in Offsets, fails \in {"none", "mktime", "utime"}, u \in BOOLEAN :
          BoardLoadHelper(off, fails, u)
    \/ BoardReset
    \/ \E stat \in StatSeqs : SetModes(stat)
    \/ \E ex \in BOOLEAN : SetExists(ex)
    \/ ReadModes
    \/ \E stat \in StatSeqs, ex \in BOOLEAN : NewPath(stat, ex)

\* Files of the host: what they are, their size and their mtime.
HostFiles == [kind : {"file", "dir"}, size : Sizes, mtime : HostTimes]
OptSets == SUBSET {"s", "u", "t", "n"}

\* check_remote_is_up_to_date(local, remote, opts): -1 to skip the file,
\* the mtime of the local file to copy it
check_remote_is_up_to_date(local, remote, opts) ==
    IF /\ "s" \in opts
       /\ exists(remote)
       /\ \/ /\ local.mtime = remote.mtime
             /\ (local.kind = "dir" \/ local.size = remote.size)
          \/ "u" \in opts /\ local.mtime < remote.mtime
    THEN -1
    ELSE local.mtime

\* put_file(filename, dest, opts): what it does, and the mtime it sets on the
\* board with uos.utime (<<>>: no call)
put_file(local, dest, opts) ==
    LET checked == opts \cap {"t", "s", "u"} # {}
        mtime   == IF checked THEN check_remote_is_up_to_date(local, dest, opts) ELSE 0
        did     == IF local.kind = "file" THEN "written"
                   ELSE IF ~exists(dest) THEN "mkdir" ELSE "nothing"
    IN  IF \/ local.kind = "dir" /\ is_file("gen", dest)
           \/ local.kind = "file" /\ is_dir("gen", dest)
        THEN [did |-> "OSError", utime |-> <<>>]
        ELSE IF mtime < 0 THEN [did |-> "skipped", utime |-> <<>>]
        ELSE IF "n" \in opts THEN [did |-> "dry run", utime |-> <<>>]
        ELSE [did |-> did,
              utime |-> IF "t" \in opts /\ meta.board_has_utime
                        THEN <<mtime - meta.epoch_offset>> ELSE <<>>]

\* Board.put of one name onto dest, whose stat on the board is rstat (the
\* helper on the board answers ls_files): onto dest itself unless it is a
\* directory, else onto dest / name, a RemotePath that has had no set_modes;
\* a directory goes to put_dir.
PutFile(rstat, local, opts) ==
    /\ impl = "gen"
    /\ meta.res = NoMeta
    /\ meta.helper_loaded
    /\ LET dest   == set_modes(NewRemotePath, rstat, meta.epoch_offset)
           onto   == IF is_dir("gen", dest) THEN NewRemotePath ELSE dest
           out    == IF is_dir("gen", dest) /\ local.kind = "dir"
                     THEN [did |-> "put_dir", utime |-> <<>>]
                     ELSE put_file(local, onto, opts)
       IN  meta' = [meta EXCEPT !.res =
                      [cmd |-> "put", local |-> local, dest |-> dest, onto |-> onto,
                       opts |-> opts, did |-> out.did, utime |-> out.utime]]
    /\ UNCHANGED <<rawVars, loopVars, det, fsys, tree, moreVars>>

\* Python's round(x) of a number of half seconds: halves go to the even
\* neighbour.
PyRound(h) ==
    IF h % 2 = 0 THEN h \div 2
    ELSE IF ((h - 1) \div 2) % 2 = 0 THEN (h - 1) \div 2 ELSE (h + 1) \div 2

\* st_mtime of the host's files, in half seconds (99.5 s to 102.0 s)
HalfTimes == 199..204
PathStats == [kind : {"file", "dir"}, size : Sizes, mtime2 : HalfTimes]

skip_fileExact(src, dst) ==
    \/ src.kind = "dir" /\ dst.kind = "dir"
    \/ /\ src.kind = "file" /\ dst.kind = "file"
       /\ PyRound(dst.mtime2) = PyRound(src.mtime2)
       /\ dst.size = src.size

\* skip_file(src, dst) of paths.py
skip_file(src, dst) ==
    \/ src.kind = "dir" /\ dst.kind = "dir"
    \/ /\ src.kind = "file" /\ dst.kind = "file"
       /\ PyRound(dst.mtime2) >= PyRound(src.mtime2)
       /\ dst.size = src.size

SkipFile(src, dst) ==
    /\ impl = "gen"
    /\ meta.res = NoMeta
    /\ meta' = [meta EXCEPT !.res =
                  [cmd |-> "skip_file", src |-> src, dst |-> dst,
                   skip |-> skip_file(src, dst)]]
    /\ UNCHANGED <<rawVars, loopVars, det, fsys, tree, moreVars>>

PutNext ==
    \/ \E off \in Offsets, fails \in {"none", "mktime", "utime"}, u \in BOOLEAN :
          BoardLoadHelper(off, fails, u)
    \/ BoardReset
    \/ /\ meta.res = NoMeta
       /\ \E rstat \in Stats, local \in HostFiles, opts \in OptSets :
             PutFile(rstat, local, opts)

SkipNext ==
    /\ meta.res = NoMeta
    /\ \E src \in PathStats, dst \in PathStats : SkipFile(src, dst)

(***************************************************************************)
(* The command shell's queue: BaseCommands.run, onecmd, process_args and   *)
(* postcmd of src/src/mpr_thing/base_commands.py, with cmdloop of Python's *)
(* cmd.Cmd.  A command is a record: its word, the line it was typed on,    *)
(* its place on that line, and sub, its place in the expansion of an alias *)
(* (0: typed).  An argument list is a sequence of commands with a ";"      *)
(* between each two.                                                        *)
(***************************************************************************)
MaxActs == 2       \* activations of the shell
MaxLines == 2      \* lines the user types
MaxLineLen == 2    \* commands on a line

\* "cmd": a command; "alias": an alias for "cmd ; cmd"; "%": what is left of
\* a typed "%%"; "quit".
Words == {"cmd", "alias", "%", "quit"}
Lines == UNION {[1..n -> Words] : n \in 1..MaxLineLen}
CmdOutcomes == {"ok", "KeyboardInterrupt", "Exception"}

QueueInit ==
    cmdq = [cmdqueue |-> <<>>, multi_cmd_mode |-> FALSE, running |-> FALSE,
            act |-> 0, readAt |-> <<>>, ran |-> <<>>]

\* self.split(line): the commands of the line typed as line number k
ArgsOf(line, k) ==
    [i \in 1..Len(line) |-> [w |-> line[i], line |-> k, pos |-> i, sub |-> 0]]

\* split_semicolons (lines 671-684): the first command, the others pushed
\* onto the front of the queue, each a list of its own.
split_semicolons(args, queue) ==
    IF Len(args) <= 1 THEN [args |-> args, cmdqueue |-> queue]
    ELSE [args |-> <<args[1]>>,
          cmdqueue |-> [i \in 1..(Len(args) - 1) |-> <<args[i + 1]>>] \o queue]

\* expand_aliases (lines 647-663): the alias stands for "cmd ; cmd"
expand_aliases(args) ==
    IF args # <<>> /\ args[1].w = "alias"
    THEN [j \in 1..2 |-> [args[1] EXCEPT !.w = "cmd", !.sub = j]]
    ELSE args

\* process_args (lines 665-691)
process_args(args, queue) ==
    LET a == split_semicolons(args, queue)
    IN  split_semicolons(expand_aliases(a.args), a.cmdqueue)

\* multi_cmd_mode after the command w (default(), lines 514-536)
MultiAfter(w, multi) ==
    CASE w = "%" /\ ~multi -> TRUE
      [] w = "quit" /\ multi -> FALSE
      [] OTHER -> multi

\* postcmd (lines 736-739)
postcmd(multi, queue) == ~multi /\ queue = <<>>

\* run(prefix) is called: the loop has accepted an escape trigger.
QueueRun ==
    /\ ~cmdq.running
    /\ cmdq.act < MaxActs
    /\ cmdq' = [cmdq EXCEPT !.running = TRUE, !.act = @ + 1]
    /\ UNCHANGED <<rawVars, loopVars, det, fsys, tree, meta, rcache, cur>>

\* One round of cmdloop inside run: the next line is taken from cmdqueue, or
\* read from the user when the queue is empty; onecmd runs its first command,
\* which ends with out; postcmd says whether cmdloop stops.  An exception
\* leaves cmdloop, and run (lines 741-759) starts cmdloop again in
\* multi-command mode and returns otherwise.
QueueStep(line, out) ==
    /\ cmdq.running
    /\ LET queued == cmdq.cmdqueue # <<>>
           k      == Len(cmdq.readAt) + 1
           args   == IF queued THEN Head(cmdq.cmdqueue) ELSE ArgsOf(line, k)
           rest   == IF queued THEN Tail(cmdq.cmdqueue) ELSE <<>>
           p      == process_args(args, rest)
           c      == p.args[1]
           multi  == MultiAfter(c.w, cmdq.multi_cmd_mode)
       IN  /\ (~queued => k <= MaxLines)
           /\ (out # "ok" => c.w = "cmd")
           /\ cmdq' = [cmdq EXCEPT
                         !.cmdqueue = p.cmdqueue,
                         !.multi_cmd_mode = multi,
                         !.readAt = IF queued THEN @ ELSE Append(@, cmdq.act),
                         !.ran = Append(@, [cmd |-> c, act |-> cmdq.act]),
                         !.running = IF out = "ok" THEN ~postcmd(multi, p.cmdqueue)
                                     ELSE multi]
    /\ UNCHANGED <<rawVars, loopVars, det, fsys, tree, meta, rcache, cur>>

QueueNext ==
    \/ QueueRun
    \/ \E line \in Lines, out \in CmdOutcomes : QueueStep(line, out)

(***************************************************************************)
(* RemotePath of src/src/mpr_thing/mpremote_path.py and its two caches.    *)
(* The board object (RemotePath._board) does what it is asked on the       *)
(* board's files, or raises.  The board's working directory is "/".        *)
(***************************************************************************)
RPlaces == {<<"d">>, <<"f">>, <<"d", "f">>}
RDirs == {<<>>, <<"d">>}
RTyped == [abs : BOOLEAN, parts : RPlaces]

Parent(parts) == SubSeq(parts, 1, Len(parts) - 1)
RKind(fs, n) == IF n = <<>> THEN "dir" ELSE fs[n]
Children(fs, n) == {q \in RPlaces : Parent(q) = n /\ fs[q] # "none"}

NotCached == [k |-> "none", old |-> FALSE]
NoQuery == [op |-> "none", from_cache |-> FALSE, old |-> FALSE]

\* _stat_cache and _dir_cache are empty class attributes (lines 51-52).
\* old is history: the entry was stored before an operation that changed
\* what it describes.
CacheInit ==
    rcache = [fs |-> [q \in RPlaces |-> "none"],
              stat |-> [q \in RPlaces |-> NotCached],
              dirc |-> [q \in RDirs |-> "no"],
              last |-> NoQuery]

\* History: the entries about the nodes in stats and the listings in dirs
\* describe what an operation has just changed.
MarkOld(c, stats, dirs) ==
    [c EXCEPT
        !.stat = [q \in RPlaces |->
                    IF q \in stats /\ c.stat[q].k # "none"
                    THEN [c.stat[q] EXCEPT !.old = TRUE] ELSE c.stat[q]],
        !.dirc = [q \in RDirs |->
                    IF q \in dirs /\ c.dirc[q] # "no" THEN "old" ELSE c.dirc[q]]]

\* Is the key in the cache?  The caches are filled under absolute paths
\* (_set_stat: self.resolve(), iterdir: self.resolve()), and a relative
\* RemotePath is not equal to an absolute one.
KeyFound(path) == path.abs
\* del_cache(path) (lines 60-73): the listing of path.parent, the listing of
\* path when path.is_dir(), the stat of path.  is_dir() calls stat(), which
\* asks the board when the cache has no entry.
del_cache(c, path) ==
    LET n  == path.parts
        c1 == IF KeyFound(path) /\ Parent(n) \in RDirs
              THEN [c EXCEPT !.dirc[Parent(n)] = "no"] ELSE c
        hit == c1.stat[n].k # "none"
        c2 == IF ~hit /\ c1.fs[n] # "none"
              THEN [c1 EXCEPT !.stat[n] = [k |-> c1.fs[n], old |-> FALSE]] ELSE c1
        isd == c2.stat[n].k = "dir"
        c3 == IF isd /\ KeyFound(path) /\ n \in RDirs
              THEN [c2 EXCEPT !.dirc[n] = "no"] ELSE c2
    IN  IF KeyFound(path) THEN [c3 EXCEPT !.stat[n] = NotCached] ELSE c3

\* stat() (lines 135-139) and board_stat (126-133)
RStat(path) ==
    /\ LET n == path.parts
           e == rcache.stat[n]
       IN  rcache' =
             IF e.k # "none"
             THEN [rcache EXCEPT !.last = [op |-> "stat", from_cache |-> TRUE,
                                           old |-> e.old]]
             ELSE [rcache EXCEPT
                     !.stat[n] = IF rcache.fs[n] = "none" THEN NotCached
                                 ELSE [k |-> rcache.fs[n], old |-> FALSE],
                     !.last = [op |-> "stat", from_cache |-> FALSE, old |-> FALSE]]
    /\ UNCHANGED <<rawVars, loopVars, det, fsys, tree, meta, cmdq, cur>>

\* iterdir() (lines 147-158); first is the entry the board lists first, of
\* which the code keeps the stat ("[:1]").
RIterdir(n, first) ==
    /\ RKind(rcache.fs, n) = "dir"
    /\ IF Children(rcache.fs, n) = {} THEN first = n ELSE first \in Children(rcache.fs, n)
    /\ rcache' =
         IF rcache.dirc[n] # "no"
         THEN [rcache EXCEPT !.last = [op |-> "iterdir", from_cache |-> TRUE,
                                       old |-> rcache.dirc[n] = "old"]]
         ELSE IF first = n
         THEN [rcache EXCEPT !.last = [op |-> "iterdir", from_cache |-> FALSE,
                                       old |-> FALSE]]
         ELSE [rcache EXCEPT
                 !.stat[first] = [k |-> rcache.fs[first], old |-> FALSE],
                 !.dirc[n] = "fresh",
                 !.last = [op |-> "iterdir", from_cache |-> FALSE, old |-> FALSE]]
    /\ UNCHANGED <<rawVars, loopVars, det, fsys, tree, meta, cmdq, cur>>

\* touch, mkdir, unlink, rmdir (lines 202-223): the board is asked, then
\* del_cache(self).  The board raises when it cannot do it.
RChange(op, path) ==
    /\ LET n   == path.parts
           k   == rcache.fs[n]
           up  == RKind(rcache.fs, Parent(n)) = "dir"
           can == CASE op = "touch"  -> up /\ k # "dir"
                    [] op = "mkdir"  -> up /\ k = "none"
                    [] op = "unlink" -> k = "file"
                    [] op = "rmdir"  -> k = "dir" /\ Children(rcache.fs, n) = {}
           to  == CASE op = "touch" -> "file" [] op = "mkdir" -> "dir" [] OTHER -> "none"
           c0  == [rcache EXCEPT !.fs[n] = to, !.last = NoQuery]
           c1  == MarkOld(c0, {n}, IF k # to THEN {Parent(n), n} \cap RDirs ELSE {})
       IN  /\ can
           /\ rcache' = del_cache(c1, path)
    /\ UNCHANGED <<rawVars, loopVars, det, fsys, tree, meta, cmdq, cur>>

\* rename(target) and replace(target) (lines 228-237): the board moves the
\* file (into target when target is a directory), then del_cache(self).
RRename(path, target) ==
    /\ LET n  == path.parts
           t  == IF rcache.fs[target.parts] = "dir"
                 THEN Append(target.parts, n[Len(n)]) ELSE target.parts
       IN  /\ rcache.fs[n] = "file"
           /\ t \in RPlaces
           /\ t # n
           /\ RKind(rcache.fs, Parent(t)) = "dir"
           /\ rcache.fs[t] # "dir"
           /\ rcache' = del_cache(
                  MarkOld([rcache EXCEPT !.fs[n] = "none", !.fs[t] = "file",
                                         !.last = NoQuery],
                          {n, t}, {Parent(n), Parent(t)}),
                  path)
    /\ UNCHANGED <<rawVars, loopVars, det, fsys, tree, meta, cmdq, cur>>

CacheNext ==
    \/ \E path \in RTyped : RStat(path)
    \/ \E n \in RDirs, first \in RPlaces \cup {<<>>} : RIterdir(n, first)
    \/ \E op \in {"touch", "mkdir", "unlink", "rmdir"}, path \in RTyped : RChange(op, path)
    \/ \E path \in RTyped, target \in RTyped : RRename(path, target)

(***************************************************************************)
(* query_console and cursor_column of src/src/mpr_thing/mpr_thing.py, one  *)
(* poll at a time.  The bytes that will reach the console input are fixed  *)
(* when the query is written: what the user typed ahead, then the          *)
(* terminal's answer; each poll reads one of them or finds none waiting.   *)
(***************************************************************************)
TypedAhead == {<<>>, <<"a">>, <<NonAscii>>}
QueryStreams == {t \o r : t \in TypedAhead, r \in Responses}

CursorInit ==
    cur = [state |-> "idle", stream |-> <<>>, response |-> <<>>, polls |-> 0,
           written |-> 0, col |-> NotQueried]

\* cursor_column is called: query_console writes ESC[6n (line 46).
CursorStart(stream) ==
    /\ cur.state = "idle"
    /\ cur' = [cur EXCEPT !.state = "polling", !.stream = stream, !.written = @ + 1]
    /\ UNCHANGED <<rawVars, loopVars, det, fsys, tree, meta, cmdq, rcache>>

\* for _ in range(50)
PollsLeft(polls) == polls < QueryReadsNew

\* One round of the for loop (lines 48-61): the wait of at most 0.1 s, then
\* readchar(), which returns a byte (got) or None; the response is decoded
\* and matched after every byte.  The loop's else clause returns None, which
\* cursor_column turns into -1.
CursorPoll(got) ==
    /\ cur.state = "polling"
    /\ PollsLeft(cur.polls)
    /\ (got => cur.stream # <<>>)
    /\ LET response == IF got THEN Append(cur.response, Head(cur.stream))
                       ELSE cur.response
           polled   == [cur EXCEPT !.polls = @ + 1, !.response = response,
                                   !.stream = IF got THEN Tail(@) ELSE @]
       IN  cur' =
             CASE got /\ ~Decodable(response) ->
                    [polled EXCEPT !.state = "UnicodeDecodeError"]
               [] got /\ Decodable(response) /\ NewPattern(response) # {} ->
                    [polled EXCEPT
                       !.state = "returned",
                       !.col = ToInt(Group2(response,
                                            CHOOSE m \in NewPattern(response) : TRUE))]
               [] OTHER ->
                    IF PollsLeft(polled.polls) THEN polled
                    ELSE [polled EXCEPT !.state = "returned", !.col = NoMatch]
    /\ UNCHANGED <<rawVars, loopVars, det, fsys, tree, meta, cmdq, rcache>>

CursorNext ==
    \/ \E stream \in QueryStreams : CursorStart(stream)
    \/ \E got \in BOOLEAN : CursorPoll(got)

vars == <<impl, pyb, scopes, exc, ep, lp, conin, devq, fwd, owed, shell, last, env,
          det, fsys, tree, meta, cmdq, rcache, cur>>

Init == RawInit /\ LoopInit /\ DetInit /\ FileInit /\ TreeInit /\ MetaInit /\ QueueInit
        /\ CacheInit /\ CursorInit

\* The raw-REPL scopes on their own.
SpecRawRepl == Init /\ [][RawNext]_vars

\* The interactive loop with its shell.
SpecLoop == Init /\ [][LoopNext]_vars

\* The old prompt detector with any input.
SpecDetect == Init /\ [][DetNext]_vars
SpecFiles == Init /\ [][FileNext]_vars
SpecPump == Init /\ [][PumpNext]_vars /\ WF_vars(PumpFair)

\* Transfers of directory trees.
SpecXfer == Init /\ [][XferNext]_vars

\* Removals of directory trees.
SpecRm == Init /\ [][RmNext]_vars

\* Recursive listings.
SpecLs == Init /\ [][LsNext]_vars

\* RemotePath and the clock offset.
SpecMeta == Init /\ [][MetaNext]_vars

\* put of a file that may need no copy.
SpecPut == Init /\ [][PutNext]_vars

\* skip_file on every pair of files.
SpecSkip == Init /\ [][SkipNext]_vars

\* The shell's command queue over several activations.
SpecQueue == Init /\ [][QueueNext]_vars

\* RemotePath: queries and changes, by absolute and by relative paths.
SpecCache == Init /\ [][CacheNext]_vars

\* One cursor query, whatever arrives on the console and whenever.
SpecCursor == Init /\ [][CursorNext]_vars

(***************************************************************************)
(* Claims about the raw-REPL scopes                                        *)
(***************************************************************************)
Count(seq, x) == Cardinality({i \in 1..Len(seq) : seq[i] = x})

EpisodeOver == ep.started /\ scopes = <<>> /\ exc = "none"

\* C1: N >= 1 raw_repl scopes opened one inside another and closed without any
\* exception perform exactly one device-level enter_raw_repl (while they are
\* open: one enter, no exit) and exactly one device-level exit_raw_repl (once
\* the outermost has closed), for every N and in both generations of raw_repl.
C1_OneEnterOneExit ==
    (ep.started /\ ep.clean) =>
        /\ (scopes # <<>> => pyb.nEnter = 1 /\ pyb.nExit = 0)
        /\ (scopes = <<>> => pyb.nEnter = 1 /\ pyb.nExit = 1)

C1_Witness ==
    /\ EpisodeOver /\ ep.clean /\ ep.depth = MaxDepth
    /\ pyb.nEnter = 1 /\ pyb.nExit = 1

\* C2: class-based raw_repl: once the outermost scope, which entered raw mode,
\* has finished by any path (normal return, PyboardError, KeyboardInterrupt,
\* any other exception of its body), the raw-mode exit has been sent and
\* in_raw_repl is false.
C2_ExitOnEveryPath ==
    (impl = "class" /\ ep.started /\ scopes = <<>>) =>
        /\ ~pyb.in_raw_repl
        /\ pyb.mode = "friendly"
        /\ pyb.nExit >= 1
        /\ Count(pyb.io, CtrlB) >= 1

C2_Witness ==
    /\ impl = "class" /\ ep.started /\ scopes = <<>>
    /\ ep.depth >= 2 /\ ep.lastExc = "KeyboardInterrupt"
    /\ pyb.nEnter = 1 /\ pyb.nExit = 1 /\ ~pyb.in_raw_repl

\* C3 (as claimed): generator-based raw_repl: a scope that found the board
\* already in raw mode never causes the device to leave raw mode, whichever way
\* its body ends.
C3_NestedNeverLeavesRaw ==
    impl = "gen" => ~ep.nestedLeft

\* C4: class-based raw_repl: a KeyboardInterrupt that ends the scope which
\* entered raw mode makes it write \r ^C ^C, then the exit (\r ^B), then wait
\* for the prompt, and nothing else; a nested scope the interrupt passes
\* through writes nothing; the interrupt bytes are sent once per interrupted
\* command.
C4_InterruptThenExit ==
    impl = "class" =>
        /\ \A i \in 1..Len(ep.intrLog) :
              ep.intrLog[i].wrote =
                  IF ep.intrLog[i].restore_repl
                  THEN <<CR, CtrlC, CtrlC, CR, CtrlB, ReadPrompt>>
                  ELSE <<>>
        /\ Count(pyb.io, CtrlC) =
              2 * Cardinality({i \in 1..Len(ep.intrLog) : ep.intrLog[i].restore_repl})
        /\ (scopes = <<>> /\ ep.lastExc = "KeyboardInterrupt" /\ ep.depth >= 1)
              => Count(pyb.io, CtrlC) = 2

C4_Witness ==
    /\ impl = "class" /\ scopes = <<>> /\ ep.lastExc = "KeyboardInterrupt"
    /\ Len(ep.intrLog) = MaxDepth
    /\ Count(pyb.io, CtrlC) = 2
    /\ SubSeq(pyb.io, Len(pyb.io) - 5, Len(pyb.io))
          = <<CR, CtrlC, CtrlC, CR, CtrlB, ReadPrompt>>

\* C5: class-based raw_repl and Board.exec_: a PyboardError of code executed in
\* a scope is recoverable: when the outermost scope has ended with it the device
\* is in friendly mode with in_raw_repl false, and the next scope on the board
\* enters raw mode again (one enter_raw_repl), in which code executes.
C5_PyboardErrorRecoverable ==
    impl = "class" =>
        /\ (scopes = <<>> /\ ep.lastExc = "PyboardError" /\ ep.depth >= 1)
              => (~pyb.in_raw_repl /\ pyb.mode = "friendly")
        /\ (scopes # <<>> /\ ep.prevExc = "PyboardError" /\ exc = "none")
              => (pyb.in_raw_repl /\ pyb.mode = "raw" /\ pyb.nEnter = 1
                  /\ (pyb.nExecOk < MaxExec => ENABLED BodyExec))

C5_Witness ==
    /\ impl = "class" /\ ep.prevExc = "PyboardError"
    /\ scopes # <<>> /\ pyb.nEnter = 1 /\ pyb.nExecOk >= 1 /\ ep.clean


\* C35: class-based raw_repl: a PyboardError that ends a scope is propagated
\* to the caller when the scope was made with reraise=True, and is not
\* propagated when it was made with reraise=False.
C35_ReraiseOnlyWhenAsked ==
    [][(impl = "class" /\ scopes # <<>> /\ exc = "PyboardError" /\ scopes' = Pop(scopes))
          => exc' = (IF Top(scopes).reraise THEN "PyboardError" ELSE "none")]_vars

\* C33: generator-based raw_repl: once a keyboard interrupt has ended a scope
\* nested in the scope a command holds open, that command issues no further
\* exec_ on the device: the interrupt unwinds the whole command.
C33_InterruptUnwindsCommand ==
    [][(impl = "gen" /\ scopes # <<>> /\ ep.intrLog # <<>>)
          => pyb'.nExecOk <= pyb.nExecOk]_vars

(***************************************************************************)
(* Claims about the interactive loop and its shell                         *)
(***************************************************************************)

C7_InterruptReturnsToPassThrough ==
    impl = "class" /\ last.shellExc = "KeyboardInterrupt" =>
        lp.state = "PassThrough" /\ lp.attached

\* C8: the loop hands the console to the shell only on '%' or '!' with the
\* prompt flag true and either beginning_of_line true or a cursor column of
\* exactly 5; with the prompt flag false or beginning_of_line true it writes
\* no cursor query.
C8_HandoffOnlyAtPrompt ==
    /\ last.handed =>
          /\ last.c \in {"%", "!"}
          /\ last.at_prompt
          /\ last.bol \/ (last.queried /\ last.col = 5)
    /\ (~last.at_prompt \/ last.bol) => ~last.queried

C8_Witness ==
    /\ last.handed
    /\ ~last.bol
    /\ last.queried
    /\ last.col = 5
    /\ lp.state = "ShellActive"

\* C9: in the new loop every typed byte that is neither intercepted nor an
\* accepted trigger reaches the device exactly once, unchanged and in order
\* (a trigger typed mid-line is forwarded, and no byte around it is lost).
C9_EveryByteForwarded ==
    impl = "gen" => fwd = owed

\* C12: after the loop handles a soft or a hard reset the helper is marked
\* not loaded (also when the hard reset did not toggle DTR), and the next
\* activation of the shell loads the helper again before it runs a command.
C12_ResetForcesReload ==
    /\ last.c \in {"^D", "^R"} => ~shell.loaded /\ shell.afterReset = "reset"
    /\ last.ran => shell.loaded /\ shell.helper /\ shell.afterReset # "reset"

C12_Witness ==
    /\ last.ran
    /\ shell.afterReset = "reloaded"
    /\ shell.helper

\* C13 (as stated): the new loop detaches the console only when an escape
\* trigger is accepted, holds it detached while the shell runs, re-attaches it
\* before it reads the next console byte (also when the shell raises), the
\* calls alternate, and after the shell returns the loop is in PassThrough
\* with beginning_of_line true.
C13_ConsoleHandOff ==
    impl = "gen" =>
        /\ last.detached => (last.handed /\ ~last.interrupted)
        /\ lp.paired
        /\ lp.state = "PassThrough" => lp.attached
        /\ lp.state = "ShellActive" => ~lp.attached
        /\ (lp.state = "Crashed" /\ last.handed) => lp.attached
        /\ last.returned =>
              /\ lp.state \in {"PassThrough", "Disconnected"}
              /\ lp.attached
              /\ lp.beginning_of_line

\* C13 (amended): as C13, but the loop also detaches the console in its
\* KeyboardInterrupt handler, where it re-attaches it at once.
C13_ConsoleHandOffOrInterrupt ==
    impl = "gen" =>
        /\ last.detached => (last.handed \/ last.interrupted)
        /\ lp.paired
        /\ lp.state = "PassThrough" => lp.attached
        /\ lp.state = "ShellActive" => ~lp.attached
        /\ (lp.state = "Crashed" /\ last.handed) => lp.attached
        /\ last.returned =>
              /\ lp.state \in {"PassThrough", "Disconnected"}
              /\ lp.attached
              /\ lp.beginning_of_line

C13_Witness ==
    /\ impl = "gen"
    /\ last.returned
    /\ lp.state = "PassThrough"
    /\ lp.attached
    /\ lp.beginning_of_line

\* C14: when the poll or read of the device fails, the loop exits, whatever
\* the error code.
C14_FailedReadEndsLoop ==
    last.ioerr # "none" => lp.state = "Disconnected"

\* C15: in PassThrough the loop never waits on one source while the other has
\* data: whenever a byte is pending on the console the loop goes on to handle
\* the oldest one, and whenever bytes are pending on the device it goes on to
\* echo the oldest ones (or it leaves PassThrough), however busy the other
\* source is.  The queues are first-in first-out, so every pending byte gets
\* its turn.
C15_NoStarvation ==
    \A t \in {0, 1} :
        /\ (lp.state = "PassThrough" /\ conin # <<>> /\ env.cturn = t)
              ~> (lp.state # "PassThrough" \/ env.cturn # t)
        /\ (lp.state = "PassThrough" /\ devq # <<>> /\ env.dturn = t)
              ~> (lp.state # "PassThrough" \/ env.dturn # t)

\* The loop has handled a console byte and echoed device bytes, and both
\* sources have bytes pending again.
C15_Witness ==
    /\ lp.state = "PassThrough"
    /\ env.cturn = 1
    /\ env.dturn = 1
    /\ conin # <<>>
    /\ devq # <<>>

\* A step of the old loop that reached the device part of an iteration and
\* polled the device successfully.
OldDeviceStep ==
    /\ impl = "class"
    /\ lp.state = "PassThrough"
    /\ env' = env
    /\ last'.devpart
    /\ last'.ioerr = "none"

Unanswered ==
    /\ last.c \in {"\\r", "^D", "^R"}
    /\ last.devpart
    /\ last.echo = <<>>

\* C34: after the loop has handled ctrl-K the device is not left in the raw
\* repl, whichever way the injection went: every enter_raw_repl of the branch
\* has been followed by its exit_raw_repl.
C34_InjectLeavesRawRepl ==
    (lp.state \in {"PassThrough", "Crashed"} /\ last.c = "^K") => ~pyb.in_raw_repl

\* C32: the loop never accepts an escape trigger while a carriage return it
\* forwarded, or a reset it triggered, is still unanswered: between that and
\* the trigger it has processed output of the device.
C32_TriggerOnlyWhenIdle ==
    [][(last'.handed /\ last' # last) => ~Unanswered]_vars

(***************************************************************************)
(* Claims about the file commands                                          *)
(***************************************************************************)
Asked(api, cmds) == fsys.res # NoRes /\ fsys.res.api = api /\ fsys.res.cmd \in cmds
SomeSource(P(_)) == \E i \in 1..Len(fsys.res.srcs) : P(fsys.res.srcs[i])
IsMissing(f) == f.kind = "none"
IsDir(f) == f.kind = "dir"

\* The command was refused and no call to the board names one of its sources.
Refused ==
    /\ fsys.res.files = <<>>
    /\ fsys.res.err # "none"
    /\ \A i \in 1..Len(fsys.res.calls) : fsys.res.calls[i].srcs = <<>>

\* C17 (as stated): Board.check_files refuses a copy, a move or a removal,
\* so that no call to the board names a source, when a source is missing or
\* when a source is a directory and the option "r" is not set.
C17_RejectsMissingOrDirs ==
    (/\ Asked("board", {"cp", "mv", "rm"})
     /\ SomeSource(IsMissing) \/ (SomeSource(IsDir) /\ ~fsys.res.r))
        => Refused

\* C17 (amended): as C17, but a directory without "r" is refused for a copy
\* or a removal only: a move of a directory needs no "r".
C17_RejectsMissingOrCopiedDirs ==
    /\ (/\ Asked("board", {"cp", "mv", "rm"})
        /\ \/ SomeSource(IsMissing)
           \/ SomeSource(IsDir) /\ ~fsys.res.r /\ fsys.res.cmd \in {"cp", "rm"})
          => Refused
    /\ Asked("board", {"mv"}) => fsys.res.err # "dirs"

C17_Witness ==
    /\ Asked("board", {"cp"})
    /\ ~SomeSource(IsMissing)
    /\ SomeSource(IsDir)
    /\ ~fsys.res.r
    /\ fsys.res.err = "dirs"
    /\ fsys.res.calls = <<>>

\* The destination lies below the directory f on the board.
DestBelow(f) ==
    IsDir(f) /\ IsUnder(Resolve(fsys.res.dest.path), Resolve(f.path))

\* C18: a copy or a move of a directory onto one of its own descendants is
\* refused by Board.check_files, and Board.cp / Board.mv make no call to the
\* board.
C18_DescendantRejected ==
    (Asked("board", {"cp", "mv"}) /\ SomeSource(DestBelow))
        => (Refused /\ fsys.res.calls = <<>>)

SameAsDestination(f) == f.path = fsys.res.dest.path

\* C19: check_files of pathfun.py refuses a request in which a source path
\* equals the destination path: it reports the error and returns ([], None).
C19_PathfunRejectsSame ==
    (Asked("pathfun", {"cp", "mv"}) /\ SomeSource(SameAsDestination))
        => (fsys.res.files = <<>> /\ fsys.res.err # "none")

\* Where the destination policy sends the sources of the last command.
OntoDest == {[src |-> fsys.res.srcs[1], dst |-> fsys.res.dest.path]}
IntoDest ==
    {[src |-> fsys.res.srcs[i], dst |-> Join(fsys.res.dest.path, fsys.res.srcs[i].path)] :
        i \in 1..Len(fsys.res.srcs)}

C37_DryRunChangesNothing ==
    (/\ fsys.res # NoRes
     /\ fsys.res.api = "board"
     /\ fsys.res.cmd = "mv"
     /\ fsys.res.dry_run)
        => fsys.res.calls = <<>>

\* C36: a cp of paths.py that passed check_files never copies a path onto
\* itself: in every rcopy that cp calls the destination, dest or
\* dest/basename(source), is another path than the source.
C36_NeverCopiesOntoItself ==
    (/\ fsys.res # NoRes
     /\ fsys.res.api = "paths"
     /\ fsys.res.cmd = "cp"
     /\ fsys.res.err \notin ValidationErrors)
        => \A i \in 1..Len(fsys.res.plan) :
              fsys.res.plan[i].dst # fsys.res.plan[i].src.path

\* C21: a move that passed the checks: with more than one source and a
\* destination that is not an existing directory no rename is sent to the
\* board and an error is reported; with a destination that is an existing
\* directory every source is renamed to destination/basename(source); one
\* source with a destination that does not exist is renamed to the
\* destination itself.
C21_MvDestinationPolicy ==
    (Asked("board", {"mv"}) /\ fsys.res.err \notin ValidationErrors)
        => LET d == fsys.res.dest.kind
               n == Len(fsys.res.srcs)
           IN  IF d = "dir"
               THEN /\ Range(fsys.res.plan) = IntoDest
                    /\ fsys.res.err = "none" => Range(fsys.res.made) = IntoDest
               ELSE IF n > 1
               THEN fsys.res.calls = <<>> /\ fsys.res.err # "none"
               ELSE d = "none" => Range(fsys.res.made) = OntoDest

(***************************************************************************)
(* Claims about recursive transfers                                        *)
(***************************************************************************)
Transferred(cmds) == tree.res # NoTree /\ tree.res.cmd \in cmds
Made(op, path) ==
    \E i \in 1..Len(tree.res.log) :
        tree.res.log[i].op = op /\ tree.res.log[i].path = path

GotDirs ==
    /\ Transferred({"get"})
    /\ impl = "class"
    /\ tree.res.r /\ ~tree.res.dry_run
    /\ TKind(tree.res.dst0, tree.res.dest) = "dir"
    /\ \A i \in 1..Len(tree.res.names) :
          TKind(tree.res.src0, tree.res.names[i]) = "dir"

\* C23: a recursive get of a directory D into an existing directory dest
\* makes and writes only at dest joined with the path relative to the parent
\* of D, which is below dest/basename(D), at every depth; and when no call
\* on the host fails, every file below D is written there.
C23_GetDirKeepsRelativePaths ==
    GotDirs =>
        /\ \A i \in 1..Len(tree.res.log) :
              \E k \in 1..Len(tree.res.names) :
                 LET D == tree.res.names[k]
                 IN  /\ IsPrefix(D, tree.res.log[i].from)
                     /\ tree.res.log[i].path =
                           tree.res.dest \o RelativeTo(tree.res.log[i].from, ParentOf(D))
                     /\ IsPrefix(tree.res.dest \o <<NameOf(D)>>, tree.res.log[i].path)
        /\ tree.res.err = "none" =>
              \A k \in 1..Len(tree.res.names), p \in TreePaths :
                 LET D == tree.res.names[k]
                 IN  (IsPrefix(D, p) /\ TKind(tree.res.src0, p) = "file")
                        => Made("write", tree.res.dest \o RelativeTo(p, ParentOf(D)))

\* /lib/a.py, /lib/sub/b.py and /lib/sub/deep/c.py have arrived as
\* dest/lib/a.py, dest/lib/sub/b.py and dest/lib/sub/deep/c.py.
C23_Witness ==
    /\ GotDirs
    /\ tree.res.names = << <<"lib">> >>
    /\ tree.res.err = "none"
    /\ Made("write", DestRoot \o <<"lib", "a.py">>)
    /\ Made("write", DestRoot \o <<"lib", "sub", "b.py">>)
    /\ Made("write", DestRoot \o <<"lib", "sub", "deep", "c.py">>)

\* The command ended because a directory could not be made at the
\* destination.
MkdirFailed ==
    /\ tree.res.err = "OSError"
    /\ tree.res.log # <<>>
    /\ tree.res.log[Len(tree.res.log)].op = "mkdir"

\* C28: in a get or a put of two or more names into a directory, an error of
\* the host on one name leaves the other names to be transferred: unless a
\* directory could not be made at the destination, every name that is a file
\* and whose destination is free is written.
C28_HostErrorsArePerFile ==
    (/\ Transferred({"get", "put"})
     /\ impl = "gen"
     /\ Len(tree.res.names) > 1
     /\ ~tree.res.dry_run
     /\ TKind(tree.res.dst0, tree.res.dest) = "dir"
     /\ tree.res.err \in {"none", "OSError"}
     /\ ~MkdirFailed)
       => \A k \in 1..Len(tree.res.names) :
             LET to == tree.res.dest \o <<NameOf(tree.res.names[k])>>
             IN  (/\ TKind(tree.res.src0, tree.res.names[k]) = "file"
                  /\ TKind(tree.res.dst0, to) # "dir")
                    => Made("write", to)

\* C31: a recursive listing of any set of directories has every directory at
\* or below them exactly once, with everything that is in it.
C31_EachDirectoryOnce ==
    (/\ tree.res # NoTree /\ tree.res.cmd = "ls"
     /\ \A j, k \in 1..Len(tree.res.roots) :
           j # k => tree.res.roots[j] # tree.res.roots[k]) =>
        \A k \in 1..Len(tree.res.roots) : \A d \in DirsBelow(tree.src, tree.res.roots[k]) :
           /\ Cardinality({i \in 1..Len(tree.res.listing) : tree.res.listing[i].dir = d}) = 1
           /\ \A i \in 1..Len(tree.res.listing) :
                 tree.res.listing[i].dir = d
                    => Range(tree.res.listing[i].files) = ChildrenOf(tree.src, d)

(***************************************************************************)
(* Claims about removals                                                   *)
(***************************************************************************)
Removing == tree.res # NoTree /\ tree.res.cmd = "rm"

\* C26: a remove takes a directory away only when nothing is left in it, and
\* without the recursive option it takes away no directory and nothing but
\* the paths it was given.
C26_RemoveBottomUp ==
    Removing =>
        /\ \A i \in 1..Len(tree.res.log) :
              tree.res.log[i].kind = "dir" => tree.res.log[i].empty
        /\ ~tree.res.r =>
              /\ \A p \in TreePaths :
                    TKind(tree.res.src0, p) = "dir" => TKind(tree.src, p) = "dir"
              /\ \A i \in 1..Len(tree.res.log) :
                    tree.res.log[i].path \in Range(tree.res.names)

\* C27: when the helper's rm cannot stat one of its paths it goes on with the
\* others: every file it was given is removed, and no error is raised.
C27_StatFailureSkipsOnePath ==
    (Removing /\ tree.res.by = "helper" /\ ~tree.res.n) =>
        /\ tree.res.err = "none"
        /\ \A k \in 1..Len(tree.res.names) :
              TKind(tree.res.src0, tree.res.names[k]) = "file"
                 => TKind(tree.src, tree.res.names[k]) = "none"

(***************************************************************************)
(* Claims about RemotePath, the clock offset and files that need no copy   *)
(***************************************************************************)
Putting == meta.res # NoMeta /\ meta.res.cmd = "put"
\* a put with "s" of a regular file that is carried out
PuttingFile ==
    /\ Putting
    /\ "s" \in meta.res.opts /\ "n" \notin meta.res.opts
    /\ meta.res.local.kind = "file"
    /\ meta.res.did # "OSError"

\* C24 as the specification states it: with "s", with or without "u", a file
\* is skipped only when the copy on the board exists, has the same size and
\* is not older; it is written whenever the sizes differ or the copy on the
\* board is older.
C24_SkipOnlySameSizeNotOlder ==
    PuttingFile =>
        /\ meta.res.did = "skipped" =>
              /\ exists(meta.res.onto)
              /\ meta.res.onto.size = meta.res.local.size
              /\ meta.res.onto.mtime >= meta.res.local.mtime
        /\ (\/ meta.res.onto.size # meta.res.local.size
            \/ meta.res.onto.mtime < meta.res.local.mtime)
              => meta.res.did = "written"

SkipTested ==
    /\ meta.res # NoMeta /\ meta.res.cmd = "skip_file"
    /\ meta.res.src.kind = "file" /\ meta.res.dst.kind = "file"

\* C25 as the specification states it: for two regular files skip_file is
\* true when size and mtime of dst match those of src exactly, and false
\* whenever the sizes differ or the mtimes differ by a second or more, in
\* either direction.
C25_SkipFileExactMatch ==
    SkipTested =>
        /\ (/\ meta.res.dst.size = meta.res.src.size
            /\ meta.res.dst.mtime2 = meta.res.src.mtime2) => meta.res.skip
        /\ (\/ meta.res.dst.size # meta.res.src.size
            \/ meta.res.dst.mtime2 - meta.res.src.mtime2 >= 2
            \/ meta.res.src.mtime2 - meta.res.dst.mtime2 >= 2) => ~meta.res.skip

\* C25, amended: for two regular files skip_file is true when the sizes are
\* equal and dst is not older than src; it is false whenever the sizes
\* differ, and whenever dst is older than src by more than a second.
C25_SkipFileNotOlder ==
    SkipTested =>
        /\ (/\ meta.res.dst.size = meta.res.src.size
            /\ meta.res.dst.mtime2 >= meta.res.src.mtime2) => meta.res.skip
        /\ meta.res.dst.size # meta.res.src.size => ~meta.res.skip
        /\ meta.res.src.mtime2 - meta.res.dst.mtime2 > 2 => ~meta.res.skip

\* skip_file was true for a dst of the same size that is a second or more
\* newer than src.
C25_Witness ==
    /\ SkipTested
    /\ meta.res.skip
    /\ meta.res.dst.mtime2 - meta.res.src.mtime2 >= 2

\* C29: a RemotePath that does not exist is neither a directory nor a file,
\* and no RemotePath is both a directory and a file.
C29_NeverDirAndFile ==
    /\ ~exists(meta.rp) => ~is_dir(impl, meta.rp) /\ ~is_file(impl, meta.rp)
    /\ ~(is_dir(impl, meta.rp) /\ is_file(impl, meta.rp))

\* C30: epoch_offset is assigned at most once between two calls of reset,
\* and set_modes and modes convert with the value it has.
C30_OffsetOncePerSession ==
    /\ meta.assigns <= 1
    /\ (meta.last.op = "set_modes" /\ Len(meta.last.stat) >= 3)
          => meta.rp.mtime = meta.last.stat[3] + meta.epoch_offset
    /\ (meta.last.op = "modes" /\ meta.last.stat # <<>>)
          => meta.last.stat[3] = meta.rp.mtime - meta.epoch_offset

(***************************************************************************)
(* Claims about the shell's command queue                                  *)
(***************************************************************************)
\* Is command a of a line to the left of command b of the same line?
LeftOf(a, b) == a.pos < b.pos \/ (a.pos = b.pos /\ a.sub < b.sub)

C39_NoAnswerFromStaleEntry ==
    ~(rcache.last.from_cache /\ rcache.last.old)

(***************************************************************************)
(* Claims about the cursor query                                           *)
(***************************************************************************)
\* C40: cursor_column writes its query once, polls the console at most 50
\* times and always returns: the column of an answer ESC[<row>;<col>R when the
\* bytes read form one, and -1 otherwise; no exception leaves it.
C40_CursorQueryAlwaysReturns ==
    /\ cur.written <= 1
    /\ cur.polls <= QueryReadsNew
    /\ cur.state \in {"idle", "polling", "returned"}
    /\ cur.state = "returned" =>
          IF NewPattern(cur.response) # {}
          THEN cur.col = ToInt(Group2(cur.response,
                                      CHOOSE m \in NewPattern(cur.response) : TRUE))
          ELSE cur.col = NoMatch /\ cur.polls = QueryReadsNew

(***************************************************************************)
(* Claims about the prompt detectors                                       *)
(***************************************************************************)
EndsWith(s, pat) == Len(s) >= Len(pat) /\ LastN(s, Len(pat)) = pat

\* at_prompt as C10 describes it: some prefix ends with the prompt literal
\* and no newline followed it.
PromptSince(s) ==
    \E k \in 1..Len(s) :
        /\ EndsWith(SubSeq(s, 1, k), Prompt)
        /\ \A i \in (k + 1)..Len(s) : s[i] # "\\n"

\* C10: at_prompt turns true at a byte iff the bytes so far end with the
\* literal "\n>>> ", it stays true until the next newline, and it is false
\* right after every newline.
C10_PromptIffLiteral ==
    det.fed # <<>> =>
        /\ det.turned <=> EndsWith(det.fed, Prompt)
        /\ det.at_prompt <=> PromptSince(det.fed)
        /\ det.fed[Len(det.fed)] = "\\n" => ~det.at_prompt

=============================================================================
